---------------------------- MODULE Spec2Model ----------------------------
(***************************************************************************)
(* Groundwater report pipeline: the sectioned-sheet extractors of the      *)
(* central/annexure ETL, the state-report row decoder, the per-file loops  *)
(* of the ETL, fact-normalizer and chunk-builder runs, the identity        *)
(* assignment of chunks and facts, the text of the state-report chunks,    *)
(* and the document store and streamed generation of the API server.       *)
(*                                                                         *)
(* Python values are modelled as records with a type tag:                  *)
(*   none  - None                                                          *)
(*   num   - a finite int/float, v = the value in tenths                   *)
(*   inf   - float("inf"),  nan - float("nan")                             *)
(*   str   - a string: s is the text without surrounding whitespace, pad   *)
(*           says whether the cell carries surrounding whitespace          *)
(***************************************************************************)
EXTENDS Integers, Sequences, FiniteSets, TLC

VARIABLES
    phase,          \* which pipeline stage this behaviour runs
    kind,           \* scanner: the sectioned sheet being extracted
    sheet,          \* scanner: the rows of the sheet (cells a, b, d)
    row_idx,        \* scanner: the loop variable of the row loop
    current_state,  \* scanner: the carried section key
    records,        \* scanner: the records appended so far
    run_sheets,     \* scanner: the sheets of the run, each started or not
    run_files,      \* run: the input files, in processing order
    run_pos,        \* run: the index of the next file to process
    run_master,     \* run: the entries of master_data / the output stream
    run_total,      \* run: the total_records counter
    run_saved,      \* run: the files whose own output file was written
    run_status,     \* run: "running", "written" (output complete) or "aborted"
    file_name,      \* decoder: the name of the workbook file
    ws_rows,        \* decoder: the rows of the state-report worksheet
    row_num,        \* decoder: the loop variable of the row loop
    state_records,  \* decoder: the records list of extract_state_report
    extract_status, \* decoder: "running", "returned", "raised", then the file's fate
    src_records,    \* ids: the records of the intermediate JSON being walked
    src_idx,        \* ids: the position of the next record
    written,        \* ids: the chunks or facts written to the output stream
    client,         \* api: "chromadb", or "none" when PersistentClient failed
    chroma,         \* api: the collections of the ChromaDB client
    memory_store,   \* api: the in-memory fallback store
    response,       \* api: the response to the last request
    calls,          \* api: the number of requests served
    upstream,       \* api: the lines the upstream has still to send
    events,         \* api: the events sent to the client of the stream
    stream_status   \* api: "idle", "streaming", "closed" or "refused"

scanVars == <<kind, sheet, row_idx, current_state, records, run_sheets>>
runVars == <<run_files, run_pos, run_master, run_total, run_saved, run_status>>
decodeVars == <<file_name, ws_rows, row_num, state_records, extract_status>>
idVars == <<src_records, src_idx, written>>
apiVars == <<client, chroma, memory_store, response, calls, upstream, events, stream_status>>
vars == <<phase, scanVars, runVars, decodeVars, idVars, apiVars>>

--------------------------------------------------------------------------
(* Bounds *)

\* Rows of a modelled sheet.
MaxRows == 3

\* Input files of a modelled run.
MaxFiles == 3

\* Records of a modelled intermediate JSON file.
MaxRecords == 3

\* Parts of a modelled identity call.
MaxParts == 3
MaxSheetRows == 2

--------------------------------------------------------------------------
(* Python values *)

PyNone == [t |-> "none", s |-> "", pad |-> FALSE, v |-> 0]
Text(core) == [t |-> "str", s |-> core, pad |-> FALSE, v |-> 0]
Padded(core) == [t |-> "str", s |-> core, pad |-> TRUE, v |-> 0]
Num(tenths) == [t |-> "num", s |-> "", pad |-> FALSE, v |-> tenths]
PyNaN == [t |-> "nan", s |-> "", pad |-> FALSE, v |-> 0]
PyInf == [t |-> "inf", s |-> "", pad |-> FALSE, v |-> 0]

\* Python truthiness: None, 0 and "" are falsy; NaN, inf and " " are truthy.
Truthy(x) ==
    CASE x.t = "none" -> FALSE
      [] x.t = "num" -> x.v # 0
      [] x.t = "str" -> x.s # "" \/ x.pad
      [] OTHER -> TRUE

\* repr of the finite numbers the modelled sheets hold (value in tenths).
NumRepr(tenths) ==
    CASE tenths = 0 -> "0"
      [] tenths = 5 -> "0.5"
      [] tenths = 10 -> "1"
      [] tenths = 20 -> "2"
      [] tenths = 30 -> "3"
      [] tenths = 40 -> "4"
      [] OTHER -> "number"

\* str(x)
Str(x) ==
    CASE x.t = "none" -> Text("None")
      [] x.t = "num" -> Text(NumRepr(x.v))
      [] x.t = "nan" -> Text("nan")
      [] x.t = "inf" -> Text("inf")
      [] OTHER -> x

\* str.strip()
Strip(x) == [x EXCEPT !.pad = FALSE]

\* str.upper() on the texts the modelled sheets hold.
Upper(core) ==
    CASE core = "Dynamic Ground Water Resources" -> "DYNAMIC GROUND WATER RESOURCES"
      [] core = "Categorisation of Assessment Units" -> "CATEGORISATION OF ASSESSMENT UNITS"
      [] core = "Quality Problems in Units" -> "QUALITY PROBLEMS IN UNITS"
      [] core = "S.No" -> "S.NO"
      [] core = "StateX" -> "STATEX"
      [] core = "StateY" -> "STATEY"
      [] core = "nan" -> "NAN"
      [] core = "None" -> "NONE"
      [] core = "inf" -> "INF"
      [] core = "safe" -> "SAFE"
      [] OTHER -> core

\* marker in text, for the upper-cased texts above.
Contains(text, marker) ==
    \/ text = marker
    \/ marker = "DYNAMIC GROUND WATER" /\ text = "DYNAMIC GROUND WATER RESOURCES"
    \/ marker = "CATEGORISATION OF ASSESSMENT" /\ text = "CATEGORISATION OF ASSESSMENT UNITS"
    \/ marker = "QUALITY PROBLEMS" /\ text = "QUALITY PROBLEMS IN UNITS"

\* The result of float(x): ok = FALSE stands for ValueError/TypeError.
FloatOk(k, tenths) == [ok |-> TRUE, k |-> k, v |-> tenths]
FloatErr == [ok |-> FALSE, k |-> "err", v |-> 0]

\* float() of a string: surrounding whitespace is ignored.
ParseFloat(core) ==
    CASE core = "0" -> FloatOk("fin", 0)
      [] core = "0.5" -> FloatOk("fin", 5)
      [] core = "1" -> FloatOk("fin", 10)
      [] core = "2" -> FloatOk("fin", 20)
      [] core = "10" -> FloatOk("fin", 100)
      [] core = "1234.5" -> FloatOk("fin", 12345)
      [] core \in {"nan", "NaN"} -> FloatOk("nan", 0)
      [] core \in {"inf", "Infinity"} -> FloatOk("inf", 0)
      [] OTHER -> FloatErr

\* float(x)
Float(x) ==
    CASE x.t = "none" -> FloatErr
      [] x.t = "num" -> FloatOk("fin", x.v)
      [] x.t = "nan" -> FloatOk("nan", 0)
      [] x.t = "inf" -> FloatOk("inf", 0)
      [] OTHER -> ParseFloat(x.s)

\* f < 1 for a float f: every comparison with NaN is false.
LessThanOne(f) == f.k = "fin" /\ f.v < 10


\* The variables of a stage that is not running.
IdleScan ==
    /\ kind = ""
    /\ sheet = <<>>
    /\ row_idx = 0
    /\ current_state = PyNone
    /\ records = <<>>
    /\ run_sheets = <<>>
IdleRun ==
    /\ run_files = <<>>
    /\ run_pos = 0
    /\ run_master = {}
    /\ run_total = 0
    /\ run_saved = {}
    /\ run_status = "idle"
IdleDecode ==
    /\ file_name = ""
    /\ ws_rows = <<>>
    /\ row_num = 0
    /\ state_records = <<>>
    /\ extract_status = "idle"
IdleIds ==
    /\ src_records = <<>>
    /\ src_idx = 0
    /\ written = <<>>

IdleApi ==
    /\ client = "none"
    /\ chroma = <<>>
    /\ memory_store = <<>>
    /\ response = <<>>
    /\ calls = 0
    /\ upstream = <<>>
    /\ events = <<>>
    /\ stream_status = "idle"

--------------------------------------------------------------------------
(* Value coercion of the central/annexure ETL *)

MissingTokens == {"", "-", "NA", "N/A", "NR", "--"}

\* str.replace(",", "") on the texts the modelled cells hold.
RemoveCommas(core) ==
    CASE core = "1,234.5" -> "1234.5"
      [] core = "1,0" -> "10"
      [] OTHER -> core

\* safe_float of the central/annexure ETL; a float is [ok, k, v].
central_safe_float(value, default) ==
    IF value.t = "none" THEN default
    ELSE IF value.t \in {"num", "nan", "inf"} THEN Float(value)
    ELSE LET cleaned == RemoveCommas(Strip(Str(value)).s)
         IN  IF cleaned \in MissingTokens THEN default
             ELSE IF ParseFloat(cleaned).ok THEN ParseFloat(cleaned) ELSE default

\* safe_str of the central/annexure ETL: str(value).strip().
central_safe_str(value, default) ==
    IF value.t = "none" THEN default ELSE Strip(Str(value))

--------------------------------------------------------------------------
(* Sectioned-sheet extractors *)

Kinds == {"Annexure II", "Annexure-3B", "Annexure-3D", "Annexure-3F",
          "Annexure 4A", "Annexure 4B"}

\* The first row the extractor's loop visits.
FirstRow(k) == IF k \in {"Annexure 4A", "Annexure 4B"} THEN 2 ELSE 1

\* The marker phrase of a section title row.
Marker(k) ==
    CASE k = "Annexure 4A" -> "CATEGORISATION OF ASSESSMENT"
      [] k = "Annexure 4B" -> "QUALITY PROBLEMS"
      [] OTHER -> "DYNAMIC GROUND WATER"

\* Following-row texts that are not taken as a section key.
HeaderNames(k) ==
    CASE k = "Annexure II" -> {}
      [] k \in {"Annexure 4A", "Annexure 4B"} -> {"S.NO", "S.No", "ABSTRACT"}
      [] OTHER -> {"S.No", "S.NO"}

\* Name-column texts that mark a header or footer row.
NameLiterals(k) ==
    CASE k = "Annexure II" -> {"", "Name of District", "Total", "Total(Ham)", "Total(Bcm)"}
      [] k = "Annexure-3B" -> {"", "Name of District", "Total", "No", "No."}
      [] k \in {"Annexure 4A", "Annexure 4B"} ->
            {"", "Name of District", "ABSTRACT", "Total No. of Assessed Units"}
      [] OTHER -> {"", "Name of District", "Total"}

\* Serial-column texts Annexure II sends through the serial-number test.
Annexure2SerialLiterals == {"", "S.NO", "S.No", "1", "Total(Ham)", "Total(Bcm)"}

\* ws.cell(row, column).value: an empty cell beyond the last row.
BlankRow == [a |-> PyNone, b |-> PyNone, d |-> PyNone]
CellRow(sh, i) == IF i \in 1..Len(sh) THEN sh[i] ELSE BlankRow

\* cell_a and "<marker>" in str(cell_a).upper()
IsSentinel(k, cell_a) ==
    Truthy(cell_a) /\ Contains(Upper(Str(cell_a).s), Marker(k))

\* A title-row handler that reads the title row's own first cell.
KeyAfterSentinel_OwnRow(k, sh, i, cur) ==
    LET next_val == CellRow(sh, i).a
    IN  IF Truthy(next_val) /\ Strip(Str(next_val)).s \notin HeaderNames(k)
        THEN central_safe_str(next_val, Text(""))
        ELSE cur

\* A title-row handler that clears the key when the following cell is not
\* taken as a name.
KeyAfterSentinel_Reset(k, sh, i, cur) ==
    LET next_val == CellRow(sh, i + 1).a
    IN  IF Truthy(next_val) /\ Strip(Str(next_val)).s \notin HeaderNames(k)
        THEN central_safe_str(next_val, Text(""))
        ELSE PyNone

\* The section key after a title row at row i.
KeyAfterSentinel(k, sh, i, cur) ==
    LET next_val == CellRow(sh, i + 1).a
    IN  IF Truthy(next_val) /\ Strip(Str(next_val)).s \notin HeaderNames(k)
        THEN central_safe_str(next_val, Text(""))
        ELSE cur

\* try: serial = float(cell_a) if cell_a else None;
\*      if serial is None or serial < 1: continue
\* except (ValueError, TypeError): continue
SerialRejected(cell_a) ==
    IF ~Truthy(cell_a) THEN TRUE
    ELSE IF ~Float(cell_a).ok THEN TRUE
    ELSE LessThanOne(Float(cell_a))

\* not district or str(district).strip() in (...)
NameRejected(k, district) ==
    ~Truthy(district) \/ Strip(Str(district)).s \in NameLiterals(k)

\* A record state without the "Unknown" default.
StateOrUnknown_NoDefault(cur) == cur

\* current_state or "Unknown"
StateOrUnknown(cur) == IF Truthy(cur) THEN cur ELSE Text("Unknown")

\* The record a data row yields; row is the index of its source row (4A/4B
\* records carry the unit names in place of serial_no).
MakeRecord(sh, i, cur) ==
    [row |-> i,
     serial_no |-> central_safe_float(sh[i].a, FloatOk("fin", 0)),
     state |-> StateOrUnknown(cur),
     district |-> central_safe_str(sh[i].b, Text(""))]

\* Whether Annexure II skips a non-title row.
Annexure2Skips(row) ==
    \/ /\ \/ ~Truthy(row.a)
          \/ Strip(Str(row.a)).s \in Annexure2SerialLiterals
       /\ SerialRejected(row.a)
    \/ NameRejected("Annexure II", row.b)

\* Whether an Annexure 3B/3D/3F loop skips a non-title row.
Annexure3Skips(k, row) ==
    NameRejected(k, row.b) \/ SerialRejected(row.a)

\* Whether an Annexure 4A/4B loop skips a non-title row: also when the
\* unit-name columns are all blank (d is column 4; columns 6 and 8 of the
\* modelled sheets are empty).
Annexure4Skips(k, row) ==
    \/ NameRejected(k, row.b)
    \/ SerialRejected(row.a)
    \/ ~(\/ Truthy(central_safe_str(row.d, Text("")))
         \/ Truthy(central_safe_str(PyNone, Text("")))
         \/ Truthy(central_safe_str(PyNone, Text(""))))

RowSkipped(k, row) ==
    CASE k = "Annexure II" -> Annexure2Skips(row)
      [] k \in {"Annexure 4A", "Annexure 4B"} -> Annexure4Skips(k, row)
      [] OTHER -> Annexure3Skips(k, row)

\* One iteration of an extractor's row loop.
ScanRow(k) ==
    /\ phase = "scan"
    /\ kind = k
    /\ row_idx <= Len(sheet)
    /\ LET row == sheet[row_idx]
       IN  IF IsSentinel(k, row.a)
           THEN /\ current_state' = KeyAfterSentinel(k, sheet, row_idx, current_state)
                /\ records' = records
           ELSE /\ current_state' = current_state
                /\ records' = IF RowSkipped(k, row) THEN records
                              ELSE Append(records, MakeRecord(sheet, row_idx, current_state))
    /\ row_idx' = row_idx + 1
    /\ UNCHANGED <<phase, apiVars, kind, sheet, run_sheets, runVars, decodeVars, idVars>>

extract_annexure2 == ScanRow("Annexure II")
extract_annexure3_3B == ScanRow("Annexure-3B")
extract_annexure3_3D == ScanRow("Annexure-3D")
extract_annexure3_3F == ScanRow("Annexure-3F")
extract_annexure4_4A == ScanRow("Annexure 4A")
extract_annexure4_4B == ScanRow("Annexure 4B")

\* The title text of a sheet's section rows.
SentinelText(k) ==
    CASE k = "Annexure 4A" -> "Categorisation of Assessment Units"
      [] k = "Annexure 4B" -> "Quality Problems in Units"
      [] OTHER -> "Dynamic Ground Water Resources"

SerialCells(k) ==
    {PyNone, Text(SentinelText(k)), Text("S.No"), Text("StateX"), Padded("StateY"),
     Num(10), Num(5), Text("nan")}
UnitCell(k) == IF k \in {"Annexure 4A", "Annexure 4B"} THEN Text("UnitU") ELSE PyNone

\* The rows of the modelled sheets: every serial cell beside a district
\* name, a numeric and a textual serial cell beside a blank and a footer
\* name, and for 4A/4B a data row whose unit-name columns are blank.
Rows(k) ==
    [a : SerialCells(k), b : {Text("DistrictY")}, d : {UnitCell(k)}]
    \cup [a : {Num(10), Text("StateX")}, b : {PyNone, Text("Total")}, d : {UnitCell(k)}]
    \cup [a : {Num(10)}, b : {Text("DistrictY")}, d : {PyNone}]

\* The rows above the first row the loop visits: blank, or a section title.
TitleRows(k) == {BlankRow, [a |-> Text(SentinelText(k)), b |-> PyNone, d |-> PyNone]}
Titles(k) == IF FirstRow(k) = 1 THEN {<<>>} ELSE {<<t>> : t \in TitleRows(k)}

\* After construction: a sheet of up to MaxRows visited rows below the
\* title rows, the loop at its first row, no section key, no records.
InitScan ==
    /\ phase = "scan"
    /\ kind \in Kinds
    /\ \E n \in 0..MaxRows : \E t \in Titles(kind) : \E body \in [1..n -> Rows(kind)] :
            sheet = t \o body
    /\ row_idx = FirstRow(kind)
    /\ current_state = PyNone
    /\ records = <<>>
    /\ run_sheets = <<>>
    /\ IdleRun
    /\ IdleDecode
    /\ IdleIds
    /\ IdleApi

NextScan ==
    \/ extract_annexure2
    \/ extract_annexure3_3B
    \/ extract_annexure3_3D
    \/ extract_annexure3_3F
    \/ extract_annexure4_4A
    \/ extract_annexure4_4B

SpecScan == InitScan /\ [][NextScan]_vars

--------------------------------------------------------------------------
(* Properties of the sectioned-sheet extractors *)

StateNames == {"StateX", "StateY"}
ColumnHeaderTexts == {"S.No", "S.NO"}

\* A cell holding a state name, possibly with surrounding whitespace.
IsStateNameCell(c) == c.t = "str" /\ c.s \in StateNames

\* The title rows the loop has scanned above row i.
ScannedSentinelsBefore(i) ==
    {j \in FirstRow(kind)..(i - 1) : j < row_idx /\ IsSentinel(kind, sheet[j].a)}

LastSentinelBefore(i) ==
    CHOOSE j \in ScannedSentinelsBefore(i) : \A m \in ScannedSentinelsBefore(i) : m <= j

RecordSet == {records[n] : n \in 1..Len(records)}

\* C1: once a title row is scanned whose following row holds the state name
\* S in its first cell, every record produced from a later row, up to the
\* next title row, carries state = S.
C1_SectionKeyPersists ==
    phase = "scan" =>
        \A r \in RecordSet :
            ScannedSentinelsBefore(r.row) # {} =>
                LET name == CellRow(sheet, LastSentinelBefore(r.row) + 1).a
                IN  IsStateNameCell(name) => r.state = Text(name.s)

\* C1 witness: a record from a row below the name row that carries the
\* state name of a whitespace-padded name cell.
C1_Witness ==
    /\ phase = "scan"
    /\ \E r \in RecordSet :
          /\ ScannedSentinelsBefore(r.row) # {}
          /\ r.row > LastSentinelBefore(r.row) + 1
          /\ CellRow(sheet, LastSentinelBefore(r.row) + 1).a = Padded("StateY")
          /\ r.state = Text("StateY")

\* The serial cell parses as a number >= 1.
SerialAtLeastOne(c) ==
    /\ c.t # "none"
    /\ Float(c).ok
    /\ \/ Float(c).k = "inf"
       \/ Float(c).k = "fin" /\ Float(c).v >= 10

\* The name cell is blank or one of the extractor's header/footer literals.
NameIsNoise(k, c) ==
    \/ c.t = "none"
    \/ c.t = "str" /\ c.s \in NameLiterals(k)

\* C2: a row whose serial cell does not parse as a number >= 1, or whose
\* name cell is blank or a header/footer literal, never produces a record,
\* in any sectioned-sheet extractor.
C2_NoiseRowsNeverEmitted ==
    phase = "scan" =>
        \A r \in RecordSet :
            /\ SerialAtLeastOne(sheet[r.row].a)
            /\ ~NameIsNoise(kind, sheet[r.row].b)

\* C3: neither a title row nor the state-name row that follows a scanned
\* title row is ever emitted as a record.
C3_SentinelAndNameRowsConsumed ==
    phase = "scan" =>
        \A r \in RecordSet :
            /\ ~IsSentinel(kind, sheet[r.row].a)
            /\ ~(/\ r.row - 1 >= FirstRow(kind)
                 /\ IsSentinel(kind, sheet[r.row - 1].a)
                 /\ IsStateNameCell(sheet[r.row].a))

\* C4: the section key is never set to a repeated column-header text, in
\* any sectioned-sheet extractor.
C4_HeaderNeverTakenAsKey ==
    phase = "scan" =>
        ~(current_state.t = "str" /\ current_state.s \in ColumnHeaderTexts)

\* The sheet holds no title row at all.
NoSentinelInSheet ==
    \A i \in 1..Len(sheet) : ~IsSentinel(kind, sheet[i].a)

\* C5: scanning a sheet without any title row gives every record the state
\* "Unknown".
C5_NoSentinelAllUnknown ==
    (phase = "scan" /\ NoSentinelInSheet) =>
        \A r \in RecordSet : r.state = Text("Unknown")

\* C5 witness: a fully scanned sheet without title rows that yielded two
\* records, one of them from a row below a row holding a state name.
C5_Witness ==
    /\ phase = "scan"
    /\ NoSentinelInSheet
    /\ row_idx > Len(sheet)
    /\ Len(records) >= 2
    /\ \E r \in RecordSet : \E i \in 1..(r.row - 1) : IsStateNameCell(sheet[i].a)
    /\ \A r \in RecordSet : r.state = Text("Unknown")

\* The cell below a title row is taken as a name: it is not empty and not
\* one of the header texts of the sheet.
NameAccepted(k, next_val) ==
    Truthy(next_val) /\ Strip(Str(next_val)).s \notin HeaderNames(k)

\* C26: the section key changes only in a step that scans a title row whose
\* following row's first cell is accepted as a name; every other step, a
\* title row with an empty or rejected following cell included, leaves the
\* key as it was.
C26_KeyChangesOnlyOnAcceptedTitle ==
    [][(phase = "scan" /\ current_state' # current_state) =>
          /\ IsSentinel(kind, sheet[row_idx].a)
          /\ NameAccepted(kind, CellRow(sheet, row_idx + 1).a)]_vars

\* C26 witness: a title row with no name below it was scanned after a
\* section named StateX, and the key is still StateX.
C26_Witness ==
    /\ phase = "scan"
    /\ current_state = Text("StateX")
    /\ \E i \in FirstRow(kind)..(row_idx - 1) :
          /\ IsSentinel(kind, sheet[i].a)
          /\ ~NameAccepted(kind, CellRow(sheet, i + 1).a)
          /\ \E j \in FirstRow(kind)..(i - 2) : IsSentinel(kind, sheet[j].a)

--------------------------------------------------------------------------
(* The sectioned sheets in sequence: extract_annexure3 traverses 3B, 3D    *)
(* and 3F of one workbook, extract_annexure4 traverses 4A and 4B, and the  *)
(* file loop calls extract_annexure2 for one file after the other.         *)

\* The traversals of one run, in order.
SheetSequences ==
    {<<"Annexure-3B", "Annexure-3D", "Annexure-3F">>,
     <<"Annexure 4A", "Annexure 4B">>,
     <<"Annexure II", "Annexure II">>}

\* The rows of a sheet of a sequence: a title row, a name row, a data row.
SequenceRows(k) ==
    {[a |-> Text(SentinelText(k)), b |-> PyNone, d |-> PyNone],
     [a |-> Text("StateX"), b |-> PyNone, d |-> PyNone],
     [a |-> Num(10), b |-> Text("DistrictY"), d |-> UnitCell(k)]}

\* The sheets of kind k: the rows above the first visited row, then up to
\* MaxSheetRows visited rows.
SequenceSheets(k) ==
    {t \o body : t \in Titles(k),
                 body \in UNION {[1..n -> SequenceRows(k)] : n \in 0..MaxSheetRows}}

\* A traversal that starts with the key the last traversal left.
KeyAtSheetStart_Carried(cur) == cur

\* current_state = None at the start of each sheet block and of each call.
KeyAtSheetStart(cur) == PyNone

\* The position of the sheet being traversed: the last one started.
CurrentSheet ==
    CHOOSE n \in 1..Len(run_sheets) :
        run_sheets[n].started /\ \A m \in (n + 1)..Len(run_sheets) : ~run_sheets[m].started

\* The row loop of a sheet is over: the next sheet block of the extractor,
\* or the next call of it, starts with its own record list.
next_sheet ==
    /\ phase = "scan"
    /\ row_idx > Len(sheet)
    /\ run_sheets # <<>>
    /\ CurrentSheet < Len(run_sheets)
    /\ LET next == run_sheets[CurrentSheet + 1]
       IN  /\ kind' = next.kind
           /\ sheet' = next.rows
           /\ row_idx' = FirstRow(next.kind)
           /\ run_sheets' = [run_sheets EXCEPT ![CurrentSheet + 1].started = TRUE]
    /\ current_state' = KeyAtSheetStart(current_state)
    /\ records' = <<>>
    /\ UNCHANGED <<phase, apiVars, runVars, decodeVars, idVars>>

InitSheets ==
    /\ phase = "scan"
    /\ \E kinds \in SheetSequences :
          \E first \in SequenceSheets(kinds[1]) :
          \E second \in SequenceSheets(kinds[2]) :
          \E third \in IF Len(kinds) = 3 THEN SequenceSheets(kinds[3]) ELSE {<<>>} :
              /\ kind = kinds[1]
              /\ sheet = first
              /\ run_sheets = [n \in 1..Len(kinds) |->
                                  [kind |-> kinds[n],
                                   rows |-> <<first, second, third>>[n],
                                   started |-> n = 1]]
    /\ row_idx = FirstRow(kind)
    /\ current_state = PyNone
    /\ records = <<>>
    /\ IdleRun
    /\ IdleDecode
    /\ IdleIds
    /\ IdleApi

NextSheets ==
    \/ NextScan
    \/ next_sheet

SpecSheets == InitSheets /\ [][NextSheets]_vars

\* The names the title rows of the current sheet give, scanned so far.
KeysOfThisSheet ==
    {central_safe_str(CellRow(sheet, j + 1).a, Text("")) :
        j \in {i \in FirstRow(kind)..(row_idx - 1) :
                  /\ i <= Len(sheet)
                  /\ IsSentinel(kind, sheet[i].a)
                  /\ NameAccepted(kind, CellRow(sheet, i + 1).a)}}

\* C25: each sheet traversal starts with no current key, and the state of
\* every record of a sheet is "Unknown" or a key captured in that sheet: a
\* key captured in an earlier sheet or file never tags it.
C25_KeyLocalToSheet ==
    phase = "scan" =>
        /\ row_idx = FirstRow(kind) => current_state = PyNone
        /\ \A r \in RecordSet :
              r.state = Text("Unknown") \/ r.state \in KeysOfThisSheet

\* The key a traversal of the sheet at position n ends with was captured
\* by its last title row.
EndsWithKey(n) ==
    LET k == run_sheets[n].kind
        rows == run_sheets[n].rows
    IN  \E i \in FirstRow(k)..Len(rows) :
            IsSentinel(k, rows[i].a) /\ NameAccepted(k, CellRow(rows, i + 1).a)

\* C25 witness: the sheet traversed before the current one ended with a
\* key, and the current sheet, which has no title row with a name, has a
\* record with state "Unknown".
C25_Witness ==
    /\ phase = "scan"
    /\ run_sheets # <<>>
    /\ CurrentSheet > 1
    /\ EndsWithKey(CurrentSheet - 1)
    /\ KeysOfThisSheet = {}
    /\ \E r \in RecordSet : r.state = Text("Unknown")

--------------------------------------------------------------------------
(* The ETL runs: process_all_reports (central, annexures, attribute) and   *)
(* process_all_state_reports.  A file is described by what its extractor   *)
(* does with it: it returns n records for (state, year), it raises, or it  *)
(* returns and the file's own JSON then cannot be written.                 *)

\* The families of process_all_reports, in the order of its loops.
CentralFamilies ==
    <<"central_reports", "annexure1_state_summary", "annexure2_district_resources",
      "annexure3_categorization", "annexure4_unit_details", "attribute_reports">>

Outcomes == {"ok", "extract_fails", "save_fails"}
Years == {"2021-2022", "2022-2023"}

FamilyIndex(fam) == CHOOSE i \in 1..Len(CentralFamilies) : CentralFamilies[i] = fam

CentralFiles ==
    [family : {CentralFamilies[i] : i \in 1..Len(CentralFamilies)},
     outcome : Outcomes, state : {""}, year : Years, n : {1}]
StateReportFiles ==
    [family : {"state_report"}, outcome : Outcomes,
     state : {"StateX"}, year : Years, n : {0, 2}]

\* sorted(DATA_DIR.glob(...)) per family, the families in loop order.
InFamilyOrder(fs) ==
    \A i \in 1..(Len(fs) - 1) : FamilyIndex(fs[i].family) <= FamilyIndex(fs[i + 1].family)

\* master_data[...][key] = records: a later file with the same key replaces
\* an earlier one. An entry names the file it came from.
MasterKey(f) == <<f.family, f.state, f.year>>
PutEntry(master, i, f) ==
    {e \in master : e.key # MasterKey(f)} \cup {[key |-> MasterKey(f), file |-> i, n |-> f.n]}

\* An except clause that lets the exception leave the run.
AfterFileError_Propagates(status) == "aborted"

\* except Exception as e: print(...): the loop goes on with the next file.
AfterFileError(status) == status

\* One iteration of a family loop of process_all_reports.
ProcessFamilyFile(fam) ==
    /\ phase = "central_etl"
    /\ run_status = "running"
    /\ run_pos <= Len(run_files)
    /\ run_files[run_pos].family = fam
    /\ LET f == run_files[run_pos]
       IN  CASE f.outcome = "extract_fails" ->
                  /\ run_status' = AfterFileError(run_status)
                  /\ UNCHANGED <<run_master, run_saved>>
             [] f.outcome = "save_fails" ->
                  /\ run_master' = PutEntry(run_master, run_pos, f)
                  /\ run_status' = AfterFileError(run_status)
                  /\ UNCHANGED run_saved
             [] OTHER ->
                  /\ run_master' = PutEntry(run_master, run_pos, f)
                  /\ run_saved' = run_saved \cup {run_pos}
                  /\ UNCHANGED run_status
    /\ run_pos' = run_pos + 1
    /\ UNCHANGED <<phase, apiVars, scanVars, decodeVars, idVars, run_files, run_total>>

process_central_reports == ProcessFamilyFile("central_reports")
process_annexure1 == ProcessFamilyFile("annexure1_state_summary")
process_annexure2 == ProcessFamilyFile("annexure2_district_resources")
process_annexure3 == ProcessFamilyFile("annexure3_categorization")
process_annexure4 == ProcessFamilyFile("annexure4_unit_details")
process_attribute_reports == ProcessFamilyFile("attribute_reports")

\* json.dump(master_data, ...) after the last loop of process_all_reports.
save_master_json ==
    /\ phase = "central_etl"
    /\ run_status = "running"
    /\ run_pos > Len(run_files)
    /\ run_status' = "written"
    /\ UNCHANGED <<phase, apiVars, scanVars, decodeVars, idVars, run_files, run_pos, run_master, run_total, run_saved>>

\* One iteration of the file loop of process_all_state_reports.
process_state_report ==
    /\ phase = "state_etl"
    /\ run_status = "running"
    /\ run_pos <= Len(run_files)
    /\ LET f == run_files[run_pos]
       IN  CASE f.outcome = "extract_fails" ->
                  /\ run_status' = AfterFileError(run_status)
                  /\ UNCHANGED <<run_master, run_total, run_saved>>
             [] f.n = 0 ->
                  UNCHANGED <<run_master, run_total, run_saved, run_status>>
             [] f.outcome = "save_fails" ->
                  /\ run_master' = PutEntry(run_master, run_pos, f)
                  /\ run_total' = run_total + f.n
                  /\ run_status' = AfterFileError(run_status)
                  /\ UNCHANGED run_saved
             [] OTHER ->
                  /\ run_master' = PutEntry(run_master, run_pos, f)
                  /\ run_total' = run_total + f.n
                  /\ run_saved' = run_saved \cup {run_pos}
                  /\ UNCHANGED run_status
    /\ run_pos' = run_pos + 1
    /\ UNCHANGED <<phase, apiVars, scanVars, decodeVars, idVars, run_files>>

\* metadata.total_records = total_records and the master file's json.dump.
save_state_master ==
    /\ phase = "state_etl"
    /\ run_status = "running"
    /\ run_pos > Len(run_files)
    /\ run_status' = "written"
    /\ UNCHANGED <<phase, apiVars, scanVars, decodeVars, idVars, run_files, run_pos, run_master, run_total, run_saved>>

InitEtl ==
    /\ phase \in {"central_etl", "state_etl"}
    /\ \E n \in 0..MaxFiles :
          \E fs \in [1..n -> IF phase = "central_etl" THEN CentralFiles ELSE StateReportFiles] :
              /\ phase = "central_etl" => InFamilyOrder(fs)
              /\ run_files = fs
    /\ run_pos = 1
    /\ run_master = {}
    /\ run_total = 0
    /\ run_saved = {}
    /\ run_status = "running"
    /\ IdleScan
    /\ IdleDecode
    /\ IdleIds
    /\ IdleApi

NextEtl ==
    \/ process_central_reports
    \/ process_annexure1
    \/ process_annexure2
    \/ process_annexure3
    \/ process_annexure4
    \/ process_attribute_reports
    \/ save_master_json
    \/ process_state_report
    \/ save_state_master

SpecEtl == InitEtl /\ [][NextEtl]_vars

\* The files whose extractor raised.
ExtractFailed == {i \in 1..Len(run_files) : run_files[i].outcome = "extract_fails"}

\* C6: an extractor failure on one workbook never stops the ETL run: the
\* run is never aborted and can always take its next step, the master JSON
\* is written only after every file was processed, and a file whose
\* extractor failed contributes no entry to the master data.
C6_FileFailureNeverStopsRun ==
    phase \in {"central_etl", "state_etl"} =>
        /\ run_status # "aborted"
        /\ run_status = "running" => ENABLED NextEtl
        /\ run_status = "written" => run_pos = Len(run_files) + 1
        /\ \A e \in run_master : e.file \notin ExtractFailed

\* C6 witness: the master JSON is written after a run in which the first
\* file's extractor failed, and the master data holds a later file of the
\* same family and a file of a following family.
C6_Witness ==
    /\ phase = "central_etl"
    /\ run_status = "written"
    /\ Len(run_files) = 3
    /\ 1 \in ExtractFailed
    /\ run_files[2].family = run_files[1].family
    /\ run_files[3].family # run_files[1].family
    /\ {e.file : e \in run_master} = {2, 3}

\* The number of records held in master_data["data"]: the sum of
\* len(records) over its (state, year) entries.
RECURSIVE RecordsHeld(_)
RecordsHeld(master) ==
    IF master = {} THEN 0
    ELSE LET e == CHOOSE x \in master : TRUE
         IN  e.n + RecordsHeld(master \ {e})

\* C27: after a state-report ETL run, metadata.total_records equals the
\* number of records actually held in the data map, also when two files
\* resolve to the same (state, year), or a file fails or yields no records.
C27_TotalRecordsEqualsRecordsHeld ==
    (phase = "state_etl" /\ run_status = "written") =>
        run_total = RecordsHeld(run_master)

--------------------------------------------------------------------------
(* The fact-normalizer run (unified_dataset_generator_optimized) and the   *)
(* chunk-builder run (semantic_chunker): both walk the intermediate JSON   *)
(* files family by family and append to one output stream.  A file either  *)
(* loads, or open()/json.load() raises on it.                              *)

\* The directories and glob patterns, in the order of the loops.
DerivedFamilies ==
    <<"state_reports", "central_reports", "attribute_reports",
      "annexure1", "annexure2", "annexure3", "annexure4">>

DerivedFamilyIndex(fam) == CHOOSE i \in 1..Len(DerivedFamilies) : DerivedFamilies[i] = fam

DerivedFiles ==
    [family : {DerivedFamilies[i] : i \in 1..Len(DerivedFamilies)},
     outcome : {"ok", "read_fails"}, state : {""}, year : {""}, n : {1}]

InDerivedOrder(fs) ==
    \A i \in 1..(Len(fs) - 1) :
        DerivedFamilyIndex(fs[i].family) <= DerivedFamilyIndex(fs[i + 1].family)

\* outfile.write(...) for the records or chunks of file i.
WriteLines(stream, i, f) == stream \cup {[key |-> <<f.family, i>>, file |-> i, n |-> f.n]}

\* One iteration of a file loop: json.load raises inside the loop body,
\* which has no handler, so the exception leaves the run.
DeriveFromFile(ph, fams) ==
    /\ phase = ph
    /\ run_status = "running"
    /\ run_pos <= Len(run_files)
    /\ run_files[run_pos].family \in fams
    /\ LET f == run_files[run_pos]
       IN  IF f.outcome = "read_fails"
           THEN /\ run_status' = "aborted"
                /\ UNCHANGED run_master
           ELSE /\ run_master' = WriteLines(run_master, run_pos, f)
                /\ UNCHANGED run_status
    /\ run_pos' = run_pos + 1
    /\ UNCHANGED <<phase, apiVars, scanVars, decodeVars, idVars, run_files, run_total, run_saved>>

\* The loops of process_all_reports in the fact normalizer.
normalize_state_reports == DeriveFromFile("normalizer_run", {"state_reports"})
normalize_central_reports == DeriveFromFile("normalizer_run", {"central_reports"})
normalize_attribute_reports == DeriveFromFile("normalizer_run", {"attribute_reports"})
normalize_annexures ==
    DeriveFromFile("normalizer_run", {"annexure1", "annexure2", "annexure3", "annexure4"})

\* The loops of process_all_sources in the chunk builder.
chunk_state_reports == DeriveFromFile("chunker_run", {"state_reports"})
chunk_central_reports == DeriveFromFile("chunker_run", {"central_reports"})
chunk_attribute_reports == DeriveFromFile("chunker_run", {"attribute_reports"})
chunk_annexure1 == DeriveFromFile("chunker_run", {"annexure1"})
chunk_annexure2 == DeriveFromFile("chunker_run", {"annexure2"})
chunk_annexure3 == DeriveFromFile("chunker_run", {"annexure3"})
chunk_annexure4 == DeriveFromFile("chunker_run", {"annexure4"})

\* The with-block ends and the run returns its counts.
finish_derived_run ==
    /\ phase \in {"normalizer_run", "chunker_run"}
    /\ run_status = "running"
    /\ run_pos > Len(run_files)
    /\ run_status' = "written"
    /\ UNCHANGED <<phase, apiVars, scanVars, decodeVars, idVars, run_files, run_pos, run_master, run_total, run_saved>>

InitDerive ==
    /\ phase \in {"normalizer_run", "chunker_run"}
    /\ \E n \in 0..MaxFiles : \E fs \in [1..n -> DerivedFiles] :
          /\ InDerivedOrder(fs)
          /\ run_files = fs
    /\ run_pos = 1
    /\ run_master = {}
    /\ run_total = 0
    /\ run_saved = {}
    /\ run_status = "running"
    /\ IdleScan
    /\ IdleDecode
    /\ IdleIds
    /\ IdleApi

NextDerive ==
    \/ normalize_state_reports
    \/ normalize_central_reports
    \/ normalize_attribute_reports
    \/ normalize_annexures
    \/ chunk_state_reports
    \/ chunk_central_reports
    \/ chunk_attribute_reports
    \/ chunk_annexure1
    \/ chunk_annexure2
    \/ chunk_annexure3
    \/ chunk_annexure4
    \/ finish_derived_run

SpecDerive == InitDerive /\ [][NextDerive]_vars

\* C7: in the fact-normalizer and chunk-builder runs a file that cannot be
\* read or parsed does not prevent the remaining files from being
\* processed and written: when the run has ended, the lines of every
\* readable file are on the output stream.
C7_DerivedRunsIsolateFiles ==
    (phase \in {"normalizer_run", "chunker_run"} /\ run_status \in {"written", "aborted"}) =>
        \A i \in 1..Len(run_files) :
            run_files[i].outcome = "ok" => \E e \in run_master : e.file = i

--------------------------------------------------------------------------
(* The state-report row decoder (state_report_etl): parse_row_to_record    *)
(* and the row loop of extract_state_report, followed by what the file     *)
(* loop of process_all_state_reports does with the outcome.  A worksheet   *)
(* row is its length and the cells the modelled part of the decoder reads: *)
(* column 0 (serial), 1 (state), 2 (district), 5 (rainfall) and 13 (hilly  *)
(* area).                                                                  *)

\* The character classes of the regular expressions.
Digits == {"0", "1", "2", "3", "4", "5", "6", "7", "8", "9"}
LowerLetters ==
    {"a", "b", "c", "d", "e", "f", "g", "h", "i", "j", "k", "l", "m",
     "n", "o", "p", "q", "r", "s", "t", "u", "v", "w", "x", "y", "z"}
UpperLetters ==
    {"A", "B", "C", "D", "E", "F", "G", "H", "I", "J", "K", "L", "M",
     "N", "O", "P", "Q", "R", "S", "T", "U", "V", "W", "X", "Y", "Z"}

\* text[i-1:i], empty outside the text.
CharAt(text, i) == IF i >= 1 /\ i <= Len(text) THEN SubSeq(text, i, i) ELSE ""

\* \d{n} matches at position i.
DigitsAt(text, i, n) == \A j \in i..(i + n - 1) : CharAt(text, j) \in Digits

\* \d{4}-\d{n} matches at position i.
YearRangeAt(text, i, n) ==
    DigitsAt(text, i, 4) /\ CharAt(text, i + 4) = "-" /\ DigitsAt(text, i + 5, n)

\* The leftmost position of a set of match positions.
Leftmost(positions) == CHOOSE i \in positions : \A k \in positions : i <= k

\* str.replace(old, new)
RECURSIVE Replace(_, _, _)
Replace(text, old, new) ==
    IF Len(text) < Len(old) THEN text
    ELSE IF SubSeq(text, 1, Len(old)) = old
         THEN new \o Replace(SubSeq(text, Len(old) + 1, Len(text)), old, new)
         ELSE SubSeq(text, 1, 1) \o Replace(SubSeq(text, 2, Len(text)), old, new)

\* str.strip() of a file-name part.
RECURSIVE StripSpaces(_)
StripSpaces(text) ==
    IF text = "" THEN ""
    ELSE IF CharAt(text, 1) = " " THEN StripSpaces(SubSeq(text, 2, Len(text)))
    ELSE IF CharAt(text, Len(text)) = " " THEN StripSpaces(SubSeq(text, 1, Len(text) - 1))
    ELSE text

\* re.sub(r"\d{4}-\d{n}", "", text)
RECURSIVE RemoveYearRanges(_, _)
RemoveYearRanges(text, n) ==
    IF text = "" THEN ""
    ELSE IF YearRangeAt(text, 1, n)
         THEN RemoveYearRanges(SubSeq(text, 6 + n, Len(text)), n)
         ELSE SubSeq(text, 1, 1) \o RemoveYearRanges(SubSeq(text, 2, Len(text)), n)

\* re.sub(r"([a-z])([A-Z])", r"\1 \2", text)
RECURSIVE SpaceBeforeCapitals(_)
SpaceBeforeCapitals(text) ==
    IF Len(text) < 2 THEN text
    ELSE IF CharAt(text, 1) \in LowerLetters /\ CharAt(text, 2) \in UpperLetters
         THEN SubSeq(text, 1, 1) \o " " \o SubSeq(text, 2, 2)
                \o SpaceBeforeCapitals(SubSeq(text, 3, Len(text)))
         ELSE SubSeq(text, 1, 1) \o SpaceBeforeCapitals(SubSeq(text, 2, Len(text)))

\* marker in text, for file names.
NameContains(text, marker) ==
    \E i \in 1..(Len(text) - Len(marker) + 1) : SubSeq(text, i, i + Len(marker) - 1) = marker

\* extract_year_from_filename of the state-report ETL: the first
\* "dddd-dddd", else the first "dddd-dd" with "20" put before its last two
\* digits, else "unknown".
state_extract_year_from_filename(filename) ==
    LET long == {i \in 1..Len(filename) : YearRangeAt(filename, i, 4)}
        short == {i \in 1..Len(filename) : YearRangeAt(filename, i, 2)}
    IN  IF long # {}
        THEN SubSeq(filename, Leftmost(long), Leftmost(long) + 8)
        ELSE IF short # {}
        THEN SubSeq(filename, Leftmost(short), Leftmost(short) + 3) \o "-20"
                \o SubSeq(filename, Leftmost(short) + 5, Leftmost(short) + 6)
        ELSE "unknown"

\* extract_year_from_filename of the central/annexure ETL: the first match
\* of (\d{4})[-_]?(\d{2,4}); a second group of two digits gets "20" in front.
central_extract_year_from_filename(filename) ==
    LET Second(i) == IF CharAt(filename, i + 4) \in {"-", "_"} THEN i + 5 ELSE i + 4
        starts == {i \in 1..Len(filename) :
                     DigitsAt(filename, i, 4) /\ DigitsAt(filename, Second(i), 2)}
    IN  IF starts = {} THEN "unknown"
        ELSE LET i == Leftmost(starts)
                 j == Second(i)
                 n == IF DigitsAt(filename, j, 4) THEN 4
                      ELSE IF DigitsAt(filename, j, 3) THEN 3 ELSE 2
                 year2 == SubSeq(filename, j, j + n - 1)
             IN  SubSeq(filename, i, i + 3) \o "-"
                    \o (IF n = 2 THEN "20" \o year2 ELSE year2)

\* extract_state_from_filename of the state-report ETL.
extract_state_from_filename(filename) ==
    LET name == Replace(Replace(filename, ".xlsx", ""), ".xls", "")
    IN  IF NameContains(name, "stateReport")
        THEN StripSpaces(SpaceBeforeCapitals(
                RemoveYearRanges(
                    RemoveYearRanges(
                        StripSpaces(Replace(Replace(name, "stateReport", ""), "Hydro", "")),
                        4),
                    2)))
        ELSE "Unknown"

\* The state-report workbooks of the data directory (stateReport*.xlsx).
StateFileNames == {"stateReportKerala2024-2025.xlsx", "stateReport2024-25.xlsx"}

\* str.lower() on the texts the modelled cells hold.
Lower(core) ==
    CASE core \in {"None", "NONE"} -> "none"
      [] core \in {"NaN", "NAN"} -> "nan"
      [] core \in {"Null", "NULL"} -> "null"
      [] core = "Total" -> "total"
      [] core = "StateX" -> "statex"
      [] core = "DistrictY" -> "districty"
      [] core = "DISTRICTZ" -> "districtz"
      [] core = "BlockB" -> "blockb"
      [] core = "Kerela" -> "kerela"
      [] OTHER -> core

\* safe_float of the state-report ETL without its except clause.
state_safe_float_NoExcept(value, default) ==
    IF value.t = "none" \/ value = Text("") THEN default
    ELSE IF ~Str(value).pad /\ Lower(Str(value).s) \in {"none", "nan", ""} THEN default
    ELSE Float(value)

\* safe_float of the state-report ETL: no comma stripping, and a NaN cell
\* is caught by its str() being "nan".
state_safe_float(value, default) ==
    IF value.t = "none" \/ value = Text("") THEN default
    ELSE IF ~Str(value).pad /\ Lower(Str(value).s) \in {"none", "nan", ""} THEN default
    ELSE IF Float(value).ok THEN Float(value) ELSE default

\* safe_str of the state-report ETL: None for None, "" and "none".
state_safe_str(value) ==
    IF value.t = "none" \/ value = Text("") THEN PyNone
    ELSE IF ~Str(value).pad /\ Lower(Str(value).s) = "none" THEN PyNone
    ELSE Strip(Str(value))

\* row[i] for the modelled columns of a row of length >= 10.
RowCell(row, i) ==
    CASE i = 0 -> row.serial
      [] i = 1 -> row.state
      [] i = 2 -> row.district
      [] i = 5 -> row.rain
      [] i = 13 -> row.hilly
      [] OTHER -> PyNone

\* safe_float(row[start]) if start < len(row) else 0.0
get_cnc_pq(row, start) ==
    IF start < row.len THEN state_safe_float(RowCell(row, start), FloatOk("fin", 0))
    ELSE FloatOk("fin", 0)

\* int(serial) for a finite float, as a number in tenths.
IntOf(f) == Num((f.v \div 10) * 10)

\* parse_row_to_record: the outcome is "skip" (returns None), "record", or
\* "raise": int(serial) of an infinite or NaN serial raises OverflowError or
\* ValueError outside the try block.
parse_row_to_record(row, state_name, year) ==
    LET serial == Float(RowCell(row, 0))
        nothing == [serial_no |-> PyNone, state |-> PyNone, district |-> PyNone,
                    year |-> year, rainfall_mm |-> FloatOk("fin", 0),
                    hilly_area |-> FloatOk("fin", 0)]
    IN  IF row.len < 10 THEN [outcome |-> "skip", record |-> nothing]
        ELSE IF ~Truthy(RowCell(row, 0)) \/ ~serial.ok
             THEN [outcome |-> "skip", record |-> nothing]
        ELSE IF state_safe_str(RowCell(row, 0)) = Text("Total")
             THEN [outcome |-> "skip", record |-> nothing]
        ELSE IF serial.k \in {"inf", "nan"} THEN [outcome |-> "raise", record |-> nothing]
        ELSE [outcome |-> "record",
              record |->
                [serial_no |-> IF serial.v # 0 THEN IntOf(serial) ELSE PyNone,
                 state |-> IF Truthy(state_safe_str(RowCell(row, 1)))
                           THEN state_safe_str(RowCell(row, 1)) ELSE state_name,
                 district |-> state_safe_str(RowCell(row, 2)),
                 year |-> year,
                 rainfall_mm |-> get_cnc_pq(row, 5),
                 hilly_area |-> IF row.len > 13
                                THEN state_safe_float(RowCell(row, 13), FloatOk("fin", 0))
                                ELSE FloatOk("fin", 0)]]

\* One iteration of the row loop of extract_state_report; an exception of
\* parse_row_to_record leaves the loop and the function.
extract_state_report ==
    /\ phase = "decode"
    /\ extract_status = "running"
    /\ row_num <= Len(ws_rows)
    /\ LET r == parse_row_to_record(ws_rows[row_num],
                                     Text(extract_state_from_filename(file_name)),
                                     state_extract_year_from_filename(file_name))
       IN  CASE r.outcome = "raise" ->
                  /\ extract_status' = "raised"
                  /\ UNCHANGED <<state_records, row_num>>
             [] r.outcome = "record" /\ Truthy(r.record.district) ->
                  /\ state_records' = Append(state_records, r.record)
                  /\ row_num' = row_num + 1
                  /\ UNCHANGED extract_status
             [] OTHER ->
                  /\ row_num' = row_num + 1
                  /\ UNCHANGED <<state_records, extract_status>>
    /\ UNCHANGED <<phase, apiVars, scanVars, runVars, idVars, file_name, ws_rows>>

\* wb.close() and return state, year, records.
extract_state_report_returns ==
    /\ phase = "decode"
    /\ extract_status = "running"
    /\ row_num > Len(ws_rows)
    /\ extract_status' = "returned"
    /\ UNCHANGED <<phase, apiVars, scanVars, runVars, idVars, file_name, ws_rows, row_num, state_records>>

\* The file loop after extract_state_report returned: a file without
\* records is skipped, the records of any other file enter the master data.
state_file_stored ==
    /\ phase = "decode"
    /\ extract_status = "returned"
    /\ extract_status' = IF state_records = <<>> THEN "file_empty" ELSE "file_stored"
    /\ UNCHANGED <<phase, apiVars, scanVars, runVars, idVars, file_name, ws_rows, row_num, state_records>>

\* The file loop's except clause: the exception of one row discards the
\* whole file, with the records of its other rows.
state_file_failed ==
    /\ phase = "decode"
    /\ extract_status = "raised"
    /\ extract_status' = "file_failed"
    /\ state_records' = <<>>
    /\ UNCHANGED <<phase, apiVars, scanVars, runVars, idVars, file_name, ws_rows, row_num>>

\* The rows of the modelled worksheets: every serial cell in a full row, a
\* valid serial beside blank, padded and malformed cells, the data row
\* ["1", "StateX", "DistrictY", ...] with rainfall total "1,234.5", rows cut short
\* before column 13, before column 9, and the empty row.
DecodeSerialCells ==
    {PyNone, Num(10), Num(0), Num(25), Text("0"), Text("Total"), PyInf, Text("nan")}
DecodeRows ==
    [len : {14}, serial : DecodeSerialCells, state : {PyNone},
     district : {Text("DistrictY")}, rain : {Num(50)}, hilly : {Num(20)}]
    \cup [len : {14}, serial : {Num(10)}, state : {Text("StateX")},
          district : {PyNone, Padded("")}, rain : {Text("1,234.5"), PyInf},
          hilly : {Text("-")}]
    \cup [len : {14}, serial : {Text("1")}, state : {Text("StateX")},
          district : {Text("DistrictY")}, rain : {Text("1,234.5")}, hilly : {Num(20)}]
    \cup [len : {10}, serial : {Num(10), PyInf}, state : {PyNone},
          district : {Text("DistrictY")}, rain : {Text("-")}, hilly : {PyNone}]
    \cup [len : {9}, serial : {Num(10)}, state : {PyNone},
          district : {Text("DistrictY")}, rain : {Num(50)}, hilly : {PyNone}]
    \cup [len : {0}, serial : {PyNone}, state : {PyNone},
          district : {PyNone}, rain : {PyNone}, hilly : {PyNone}]

InitDecode ==
    /\ phase = "decode"
    /\ file_name \in StateFileNames
    /\ \E n \in 0..MaxRows : \E body \in [1..n -> DecodeRows] : ws_rows = body
    /\ row_num = 1
    /\ state_records = <<>>
    /\ extract_status = "running"
    /\ IdleScan
    /\ IdleRun
    /\ IdleIds
    /\ IdleApi

NextDecode ==
    \/ extract_state_report
    \/ extract_state_report_returns
    \/ state_file_stored
    \/ state_file_failed

SpecDecode == InitDecode /\ [][NextDecode]_vars

\* C8: for any row of any length and any cell contents the decoder returns
\* one record or skips the row and never raises, so a malformed cell never
\* makes the whole file fail.
C8_DecoderNeverRaises ==
    phase = "decode" => extract_status \notin {"raised", "file_failed"}

\* The data row ["1", "StateX", "DistrictY", ...] whose rainfall-total cell
\* is "1,234.5".
IsThousandsRow(row) ==
    /\ row.len = 14
    /\ row.serial = Text("1")
    /\ row.district = Text("DistrictY")
    /\ row.rain = Text("1,234.5")

\* C16: a rainfall-total cell "1,234.5" of a data row is decoded to
\* rainfall_mm.total = 1234.5, not to the default 0.0: in a sheet of such
\* rows, the record of every row passed has the rainfall total 1234.5.
C16_ThousandsSeparatorDecoded ==
    (phase = "decode" /\ extract_status \in {"running", "returned", "file_stored"}) =>
        \A i \in 1..Len(ws_rows) :
            (/\ i < row_num
             /\ \A j \in 1..Len(ws_rows) : IsThousandsRow(ws_rows[j]))
                => /\ Len(state_records) >= i
                   /\ state_records[i].rainfall_mm = FloatOk("fin", 12345)

\* C18: every record of the state-report decoder has a present, non-empty
\* state, also when the row's state cell is blank and the file name carries
\* no state name.
C18_StateAlwaysPresent ==
    phase = "decode" =>
        \A k \in 1..Len(state_records) :
            /\ state_records[k].state.t = "str"
            /\ state_records[k].state.s # ""

--------------------------------------------------------------------------
(* Chunk identity (semantic_chunker): the builders walk the records of one *)
(* intermediate JSON and write one chunk per record (Annexure 4: one chunk *)
(* per state).  An id is the md5 of the joined parts; the model keeps the  *)
(* joined string itself, so two ids are equal exactly when the hashed      *)
(* strings are.                                                            *)

\* str.isupper() and str.title() on the names the modelled records hold.
IsUpper(core) == core \in {"DISTRICTZ"}
Title(core) == IF core = "DISTRICTZ" THEN "Districtz" ELSE core

\* The state-name replacements table, for the names the modelled records hold.
ReplacedStateName(core) ==
    CASE Lower(core) = "kerela" -> "Kerala"
      [] OTHER -> core

\* clean_name of the chunk builder.
clean_name(name, name_type) ==
    IF ~Truthy(name) THEN PyNone
    ELSE LET stripped == Strip(Str(name)).s
             cased == IF IsUpper(stripped) THEN Title(stripped) ELSE stripped
         IN  IF stripped = "" \/ Lower(stripped) \in {"null", "none", ""} THEN PyNone
             ELSE IF name_type = "state" THEN Text(ReplacedStateName(cased))
             ELSE Text(cased)

\* The characters of str(x): a padded text carries its surrounding blanks.
Raw(x) == IF Str(x).pad THEN " " \o Str(x).s \o " " ELSE Str(x).s

\* "|".join(parts)
RECURSIVE Join(_)
Join(parts) ==
    IF parts = <<>> THEN ""
    ELSE IF Len(parts) = 1 THEN parts[1]
    ELSE parts[1] \o "|" \o Join(Tail(parts))

\* generate_id of the chunk builder: the parts with "_NULL_" in the place of
\* None and "", joined with "|"; the id is the md5 of this content.
chunk_generate_id(parts) ==
    Join([i \in 1..Len(parts) |->
            IF parts[i].t = "none" \/ parts[i] = Text("") THEN "_NULL_" ELSE Raw(parts[i])])

\* len(district) <= 2 and district.isdigit(), for the modelled names.
IsShortNumber(name) == name.s \in {"1", "2", "12"}

\* The year of the intermediate JSON being walked.
SourceYear == Text("2024-2025")

\* The state key of the state-report JSON being walked.
SourceState == Text("StateX")

\* Each builder gives the ids of the chunks it returns for one record: none
\* when it returns None, else one.
build_state_report_chunk(record, state, year, row_index) ==
    LET district == clean_name(record.district, "district")
        block == clean_name(record.block, "block")
        serial_no == record.serial_no
    IN  IF ~Truthy(block) THEN <<>>
        ELSE <<chunk_generate_id(<<state, district, block, year, Text("state_report"), serial_no>>)>>

build_central_report_chunk(record, year, row_index) ==
    LET state == clean_name(record.state, "state")
        district == clean_name(record.district, "district")
    IN  IF ~Truthy(state) \/ ~Truthy(district) THEN <<>>
        ELSE <<chunk_generate_id(<<state, district, PyNone, year, Text("central_report"), row_index>>)>>

build_attribute_summary_chunk(record, year) ==
    LET state == clean_name(record.state, "state")
    IN  IF ~Truthy(state) THEN <<>>
        ELSE <<chunk_generate_id(<<state, PyNone, PyNone, year, Text("attribute_summary")>>)>>

build_attribute_detailed_chunk(record, year, row_index) ==
    LET state == clean_name(record.state, "state")
        district == clean_name(record.district, "district")
        block == clean_name(record.block, "block")
    IN  IF ~Truthy(state) \/ ~Truthy(block) THEN <<>>
        ELSE <<chunk_generate_id(<<state, district, block, year, Text("attribute_detailed"), row_index>>)>>

build_annexure1_chunk(record, year) ==
    LET state == clean_name(record.state, "state")
    IN  IF ~Truthy(state) THEN <<>>
        ELSE <<chunk_generate_id(<<state, PyNone, PyNone, year, Text("annexure1")>>)>>

build_annexure2_chunk(record, year) ==
    LET state == clean_name(record.state, "state")
        district == clean_name(record.district, "district")
    IN  IF ~Truthy(district) \/ IsShortNumber(district) THEN <<>>
        ELSE <<chunk_generate_id(<<state, district, PyNone, year, Text("annexure2")>>)>>

\* The three state tables of build_annexure3_chunks (3a, 3c, 3e).
build_annexure3_chunks(record, year, table) ==
    LET state == clean_name(record.state, "state")
    IN  IF ~Truthy(state) THEN <<>>
        ELSE <<chunk_generate_id(<<state, PyNone, PyNone, year, Text(table)>>)>>

\* build_annexure4_chunks groups the unit names by state in a dict and then
\* yields one chunk per key: a record adds a chunk only when it names a unit
\* and its state has no entry yet.
build_annexure4_chunks(record, year, table, grouped) ==
    LET state == clean_name(record.state, "state")
        unit_name == record.block
    IN  IF ~Truthy(state) THEN <<>>
        ELSE IF ~(Truthy(unit_name) /\ Truthy(Strip(Str(unit_name)))) THEN <<>>
        ELSE IF state \in grouped THEN <<>>
        ELSE <<chunk_generate_id(<<state, PyNone, PyNone, year, Text(table)>>)>>

ChunkFamilies ==
    {"state_report", "central_report", "attribute_summary", "attribute_detailed",
     "annexure1", "annexure2", "annexure3a", "annexure3c", "annexure3e",
     "annexure4a", "annexure4b"}

\* enumerate(...): the 0-based index of the record at position pos.
RowIndex(pos) == Num((pos - 1) * 10)

\* The states that already own an entry of the Annexure 4 dict.
GroupedStates == {written[n].state : n \in 1..Len(written)}

\* The ids the builder of family fam returns for the record at src_idx.
BuiltIds(fam, record) ==
    CASE fam = "state_report" ->
            build_state_report_chunk(record, SourceState, SourceYear, RowIndex(src_idx))
      [] fam = "central_report" ->
            build_central_report_chunk(record, SourceYear, RowIndex(src_idx))
      [] fam = "attribute_summary" -> build_attribute_summary_chunk(record, SourceYear)
      [] fam = "attribute_detailed" ->
            build_attribute_detailed_chunk(record, SourceYear, RowIndex(src_idx))
      [] fam = "annexure1" -> build_annexure1_chunk(record, SourceYear)
      [] fam = "annexure2" -> build_annexure2_chunk(record, SourceYear)
      [] fam \in {"annexure3a", "annexure3c", "annexure3e"} ->
            build_annexure3_chunks(record, SourceYear, fam)
      [] OTHER -> build_annexure4_chunks(record, SourceYear, fam, GroupedStates)

\* One iteration of a record loop of process_all_sources: build the chunk
\* and write it to the output stream.
WriteChunks(fams) ==
    /\ phase = "chunk_ids"
    /\ src_idx <= Len(src_records)
    /\ src_records[src_idx].family \in fams
    /\ LET record == src_records[src_idx]
           ids == BuiltIds(record.family, record)
       IN  written' = written \o
             [n \in 1..Len(ids) |->
                [id |-> ids[n], row |-> src_idx, family |-> record.family,
                 state |-> clean_name(record.state, "state")]]
    /\ src_idx' = src_idx + 1
    /\ UNCHANGED <<phase, apiVars, scanVars, runVars, decodeVars, src_records>>

write_state_report_chunks == WriteChunks({"state_report"})
write_central_report_chunks == WriteChunks({"central_report"})
write_attribute_summary_chunks == WriteChunks({"attribute_summary"})
write_attribute_detailed_chunks == WriteChunks({"attribute_detailed"})
write_annexure1_chunks == WriteChunks({"annexure1"})
write_annexure2_chunks == WriteChunks({"annexure2"})
write_annexure3_chunks == WriteChunks({"annexure3a", "annexure3c", "annexure3e"})
write_annexure4_chunks == WriteChunks({"annexure4a", "annexure4b"})

\* The records of the modelled JSON files: two districts (one in capitals)
\* with every serial number, and records without a state, district or block.
ChunkRecords(fam) ==
    [family : {fam}, state : {Text("StateX")},
     district : {Text("DistrictY"), Text("DISTRICTZ")},
     block : {Text("BlockB")}, serial_no : {Num(10), Num(20), PyNone}]
    \cup [family : {fam}, state : {PyNone, Text("StateX")}, district : {Text("DistrictY")},
          block : {PyNone, Text("BlockB")}, serial_no : {Num(10)}]
    \cup [family : {fam}, state : {Text("StateX")}, district : {PyNone},
          block : {Text("BlockB")}, serial_no : {Num(10)}]

\* One JSON file of one family with up to MaxRecords records.
InitChunk ==
    /\ phase = "chunk_ids"
    /\ \E fam \in ChunkFamilies : \E n \in 0..MaxRecords :
          \E body \in [1..n -> ChunkRecords(fam)] : src_records = body
    /\ src_idx = 1
    /\ written = <<>>
    /\ IdleScan
    /\ IdleRun
    /\ IdleDecode
    /\ IdleApi

NextChunk ==
    \/ write_state_report_chunks
    \/ write_central_report_chunks
    \/ write_attribute_summary_chunks
    \/ write_attribute_detailed_chunks
    \/ write_annexure1_chunks
    \/ write_annexure2_chunks
    \/ write_annexure3_chunks
    \/ write_annexure4_chunks

SpecChunk == InitChunk /\ [][NextChunk]_vars

\* C9: among the chunks written in one run no two chunks share an id, in
\* any chunk family: records that repeat the same state, district, block
\* and year still get distinct ids.
C9_ChunkIdsUnique ==
    phase = "chunk_ids" =>
        \A i, j \in 1..Len(written) : i # j => written[i].id # written[j].id

--------------------------------------------------------------------------
(* Fact identity (unified_dataset_generator_optimized): the normalizers    *)
(* walk the records of the intermediate JSON files and write one fact per  *)
(* metric of a record.  An id is the md5 of "state|district|block|year|    *)
(* metric"; the model keeps the joined string.                             *)

\* clean_state_name: a falsy name is returned as it is.
clean_state_name(state) ==
    IF ~Truthy(state) THEN state
    ELSE LET stripped == Strip(Str(state)).s
         IN  Text(ReplacedStateName(IF IsUpper(stripped) THEN Title(stripped) ELSE stripped))

\* clean_district_name and clean_block_name have the same body.
clean_district_name(district) ==
    IF ~Truthy(district) THEN PyNone
    ELSE LET stripped == Strip(Str(district)).s
         IN  IF stripped = "" \/ Lower(stripped) = "null" THEN PyNone
             ELSE Text(IF IsUpper(stripped) THEN Title(stripped) ELSE stripped)

clean_block_name(block) == clean_district_name(block)

\* x or ""
OrEmpty(x) == IF Truthy(x) THEN x ELSE Text("")

\* generate_id of the fact normalizer: f"{state}|{district}|{block}|{year}|{metric}".
fact_generate_id(state, district, block, year, metric) ==
    Join(<<Raw(state), Raw(district), Raw(block), Raw(year), metric>>)

\* m in text, for strings.
InString(m, text) ==
    \E i \in 1..(Len(text) - Len(m) + 1) : SubSeq(text, i, i + Len(m) - 1) = m

\* The always-keep list of create_record.
important_zero_metrics ==
    {"over_exploited_count", "critical_count", "saline_count", "stage_of_extraction",
     "categorization"}

\* any(m in metric.lower() for m in important_zero_metrics)
ImportantZeroMetric(metric) ==
    \E m \in important_zero_metrics : InString(m, Lower(metric))

\* UNIT_NAMES.get(unit, unit)
UNIT_NAMES(unit) ==
    CASE unit = "ham" -> "hectare meters"
      [] unit = "bcm" -> "billion cubic meters"
      [] unit = "mm" -> "millimeters"
      [] unit = "ha" -> "hectares"
      [] unit = "sq_km" -> "square kilometers"
      [] unit = "percent" -> "percent"
      [] unit = "count" -> "units"
      [] OTHER -> unit

\* str(n) for a natural number n.
DigitText(d) == <<"0", "1", "2", "3", "4", "5", "6", "7", "8", "9">>[d + 1]
RECURSIVE IntText(_)
IntText(n) == IF n < 10 THEN DigitText(n) ELSE IntText(n \div 10) \o DigitText(n % 10)

\* format_value: "N/A" for None, a whole float without its fraction, any
\* other float with two decimals, a string as it is.
format_value(value) ==
    CASE value.t = "none" -> "N/A"
      [] value.t = "num" ->
            IF value.v % 10 = 0 THEN IntText(value.v \div 10)
            ELSE IntText(value.v \div 10) \o "." \o DigitText(value.v % 10) \o "0"
      [] OTHER -> Raw(value)

\* str.isdigit()
IsDigitString(text) ==
    text # "" /\ \A i \in 1..Len(text) : CharAt(text, i) \in Digits

\* isinstance(value, str) and not value.replace(".", "").replace("-", "").isdigit()
IsNonNumericString(value) ==
    value.t = "str" /\ ~IsDigitString(Replace(Replace(Raw(value), ".", ""), "-", ""))

\* generate_text: the sentence of a fact.
generate_text(state, district, block, year, metric_desc, value, unit) ==
    LET location ==
            IF Truthy(block) /\ Truthy(district)
            THEN Raw(block) \o " block of " \o Raw(district) \o " district, " \o Raw(state)
            ELSE IF Truthy(district) THEN Raw(district) \o " district, " \o Raw(state)
            ELSE Raw(state)
        value_str == format_value(value)
        unit_name == UNIT_NAMES(unit)
        opening == "In " \o location \o " (" \o Raw(year) \o "), " \o metric_desc \o " is "
    IN  IF IsNonNumericString(value) THEN opening \o Raw(value) \o "."
        ELSE IF InString("count", unit) \/ InString("units", Lower(metric_desc))
        THEN Raw(state) \o " has " \o value_str \o " " \o metric_desc \o " as per the "
                \o Raw(year) \o " groundwater assessment."
        ELSE IF unit = "percent" THEN opening \o value_str \o "%."
        ELSE IF unit_name # "" THEN opening \o value_str \o " " \o unit_name \o "."
        ELSE opening \o value_str \o "."

\* create_record: no fact for a missing, blank or suppressed zero value.
create_record(state, district, block, year, metric, value, unit, source_type, metric_desc) ==
    IF value.t = "none" \/ (value.t = "str" /\ value.s = "") THEN <<>>
    ELSE IF value.t = "num" /\ value.v = 0 /\ ~ImportantZeroMetric(metric) THEN <<>>
    ELSE <<[id |-> fact_generate_id(state, OrEmpty(district), OrEmpty(block), year, metric),
            source_type |-> source_type, metric |-> metric, value |-> value,
            state |-> state, district |-> district, block |-> block, unit |-> unit,
            text |-> generate_text(state, district, block, year, metric_desc, value, unit)]>>

\* The metric lists of the normalizers (the modelled part of each list):
\* the metric name, the leaf of the record it reads, its unit, its
\* description.
Metric(name, leaf, unit, desc) ==
    [metric |-> name, leaf |-> leaf, unit |-> unit, desc |-> desc]
StateReportMetrics ==
    <<Metric("rainfall_total_mm", "rainfall_mm.total", "mm", "total rainfall"),
      Metric("geographical_area_total_ha", "geographical_area_ha.total", "ha",
             "total geographical area"),
      Metric("stage_of_extraction_percent", "stage_of_extraction_percent.total", "percent",
             "stage of groundwater extraction"),
      Metric("categorization_status", "categorization", "", "groundwater status category")>>
CentralReportMetrics ==
    <<Metric("rainfall_total_mm", "rainfall_mm.total", "mm", "total rainfall"),
      Metric("geographical_area_total_ha", "total_geographical_area_ha.total", "ha",
             "total geographical area"),
      Metric("stage_of_extraction_percent", "stage_of_extraction_percent", "percent",
             "stage of groundwater extraction"),
      Metric("categorization_status", "categorization", "", "groundwater status category")>>
AttributeSummaryMetrics ==
    <<Metric("over_exploited_units_count", "over_exploited_count", "count",
             "over-exploited groundwater units"),
      Metric("safe_units_count", "safe_count", "count", "safe groundwater units"),
      Metric("critical_units_count", "critical_count", "count", "critical groundwater units"),
      Metric("saline_units_count", "saline_count", "count", "saline groundwater units")>>
AttributeDetailedMetrics ==
    <<Metric("geographical_area_total_ha", "total_geographical_area_ha", "ha",
             "total geographical area"),
      Metric("extraction_total_ham", "extraction_ham.total", "ham",
             "total groundwater extraction"),
      Metric("stage_of_extraction_percent", "stage_of_extraction_percent", "percent",
             "stage of groundwater extraction"),
      Metric("categorization_status", "categorization", "", "groundwater status category")>>
Annexure2Metrics ==
    <<Metric("total_annual_recharge_ham", "ground_water_recharge_ham.total_annual", "ham",
             "total annual groundwater recharge"),
      Metric("natural_discharge_ham", "total_natural_discharges_ham", "ham",
             "total natural groundwater discharge"),
      Metric("extraction_total_ham", "current_annual_extraction_ham.total", "ham",
             "total groundwater extraction"),
      Metric("stage_of_extraction_percent", "stage_of_extraction_percent", "percent",
             "stage of groundwater extraction")>>
Annexure3aMetrics ==
    <<Metric("total_assessed_units", "total_assessed_units", "count", "total assessed units"),
      Metric("safe_units_percent", "safe.percent", "percent", "percentage of safe units"),
      Metric("critical_units_count", "critical.count", "count", "critical units"),
      Metric("over_exploited_units_count", "over_exploited.count", "count",
             "over-exploited units")>>

RECURSIVE Flatten(_)
Flatten(seqs) == IF seqs = <<>> THEN <<>> ELSE Head(seqs) \o Flatten(Tail(seqs))

\* The facts of one record: one create_record call per metric of the list,
\* on the value of its leaf; prefix is put before the metric name.
MetricFacts(metrics, prefix, state, district, block, year, leaves, source_type) ==
    Flatten([n \in 1..Len(metrics) |->
        LET made == create_record(state, district, block, year,
                                  prefix \o metrics[n].metric, leaves[n], metrics[n].unit,
                                  source_type, metrics[n].desc)
        IN  [k \in 1..Len(made) |-> made[k] @@ [leaf |-> metrics[n].leaf]]])

normalize_state_report(record, year) ==
    MetricFacts(StateReportMetrics, "", clean_state_name(record.state),
                clean_district_name(record.district), clean_block_name(record.block),
                year, record.leaves, "state_report")

normalize_central_report(record, year) ==
    MetricFacts(CentralReportMetrics, "", clean_state_name(record.state),
                clean_district_name(record.district), PyNone,
                year, record.leaves, "central_report")

\* The summary table of normalize_attribute_report.
normalize_attribute_summary(record, year) ==
    MetricFacts(AttributeSummaryMetrics, "", clean_state_name(record.state),
                PyNone, PyNone, year, record.leaves, "attribute_summary")

\* The detailed table of normalize_attribute_report.
normalize_attribute_report(record, year) ==
    MetricFacts(AttributeDetailedMetrics, "", clean_state_name(record.state),
                clean_district_name(record.district), clean_block_name(record.block),
                year, record.leaves, "attribute_detailed")

\* normalize_annexure2: records without a usable district are skipped.
normalize_annexure2(record, year) ==
    LET district == clean_district_name(record.district)
    IN  IF ~Truthy(district) \/ IsShortNumber(district) THEN <<>>
        ELSE MetricFacts(Annexure2Metrics, "district_", clean_state_name(record.state),
                         district, PyNone, year, record.leaves, "annexure_2")

\* The state table (3a) of normalize_annexure3.
normalize_annexure3(record, year) ==
    MetricFacts(Annexure3aMetrics, "state_categorization_", clean_state_name(record.state),
                PyNone, PyNone, year, record.leaves, "annexure_3a")

\* The unit columns of Annexure 4A and 4B with the metric each hashes.
Annexure4Columns(table) ==
    IF table = "annexure_4a"
    THEN <<[column |-> "semi_critical_unit", metric |-> "unit_status", status |-> "semi-critical",
            phrase |-> " is categorized as ", ending |-> ""],
           [column |-> "critical_unit", metric |-> "unit_status", status |-> "critical",
            phrase |-> " is categorized as ", ending |-> ""],
           [column |-> "over_exploited_unit", metric |-> "unit_status",
            status |-> "over-exploited", phrase |-> " is categorized as ", ending |-> ""]>>
    ELSE <<[column |-> "fluoride_affected_unit", metric |-> "fluoride_affected",
            status |-> "fluoride", phrase |-> " is affected by ",
            ending |-> " contamination"],
           [column |-> "arsenic_affected_unit", metric |-> "arsenic_affected",
            status |-> "arsenic", phrase |-> " is affected by ",
            ending |-> " contamination"],
           [column |-> "salinity_affected_unit", metric |-> "salinity_affected",
            status |-> "salinity", phrase |-> " is affected by ",
            ending |-> " contamination"]>>

\* normalize_annexure4: one fact per non-blank unit column of a record.
normalize_annexure4(record, year, table) ==
    LET state == clean_state_name(record.state)
        district == clean_district_name(record.district)
        columns == Annexure4Columns(table)
    IN  Flatten([n \in 1..Len(columns) |->
            LET unit_name == record.units[n]
            IN  IF Truthy(unit_name) /\ Truthy(Strip(Str(unit_name)))
                THEN <<[id |-> fact_generate_id(state, OrEmpty(district),
                                                OrEmpty(clean_block_name(unit_name)),
                                                year, columns[n].metric),
                        source_type |-> table,
                        metric |-> IF table = "annexure_4a" THEN "groundwater_unit_status"
                                   ELSE "water_quality_issue",
                        value |-> Text(columns[n].status),
                        state |-> state, district |-> district,
                        block |-> clean_block_name(unit_name), unit |-> "",
                        text |-> Raw(clean_block_name(unit_name)) \o " in " \o Raw(district)
                                   \o " district, " \o Raw(state) \o columns[n].phrase
                                   \o columns[n].status \o columns[n].ending
                                   \o " (" \o Raw(year) \o ").",
                        leaf |-> columns[n].column]>>
                ELSE <<>>])

\* The source families of the modelled normalizer run, in loop order.
FactFamilies ==
    <<"state_report", "central_report", "attribute_summary", "attribute_detailed",
      "annexure_2", "annexure_3a", "annexure_4a", "annexure_4b">>
FactFamilyIndex(fam) == CHOOSE i \in 1..Len(FactFamilies) : FactFamilies[i] = fam

\* One iteration of a record loop: the facts of the record are written.
WriteFacts(fam) ==
    /\ phase = "fact_ids"
    /\ src_idx <= Len(src_records)
    /\ src_records[src_idx].family = fam
    /\ LET record == src_records[src_idx]
           facts == CASE fam = "state_report" -> normalize_state_report(record, SourceYear)
                      [] fam = "central_report" -> normalize_central_report(record, SourceYear)
                      [] fam = "attribute_summary" ->
                            normalize_attribute_summary(record, SourceYear)
                      [] fam = "attribute_detailed" ->
                            normalize_attribute_report(record, SourceYear)
                      [] fam = "annexure_2" -> normalize_annexure2(record, SourceYear)
                      [] fam = "annexure_3a" -> normalize_annexure3(record, SourceYear)
                      [] OTHER -> normalize_annexure4(record, SourceYear, fam)
       IN  written' = written \o [n \in 1..Len(facts) |-> facts[n] @@ [row |-> src_idx]]
    /\ src_idx' = src_idx + 1
    /\ UNCHANGED <<phase, apiVars, scanVars, runVars, decodeVars, src_records>>

write_state_report_facts == WriteFacts("state_report")
write_central_report_facts == WriteFacts("central_report")
write_attribute_summary_facts == WriteFacts("attribute_summary")
write_attribute_detailed_facts == WriteFacts("attribute_detailed")
write_annexure2_facts == WriteFacts("annexure_2")
write_annexure3a_facts == WriteFacts("annexure_3a")
write_annexure4a_facts == WriteFacts("annexure_4a")
write_annexure4b_facts == WriteFacts("annexure_4b")

\* The records of the modelled JSON files: block-level and district-level
\* records with a value, a zero or no value, and Annexure 4 records whose
\* unit columns name three units, one unit twice, one unit, or none.
NoUnits == <<PyNone, PyNone, PyNone>>
NoLeaves == <<PyNone, PyNone, PyNone, PyNone>>
MetricRecords ==
    [family : {"state_report", "attribute_detailed"}, state : {Text("StateX")},
     district : {Text("DistrictY")}, block : {Text("BlockB"), PyNone},
     leaves : {<<Num(50), Num(50), Num(50), Text("critical")>>,
               <<Num(0), Num(0), Num(0), PyNone>>},
     units : {NoUnits}]
    \cup [family : {"central_report"}, state : {Text("StateX")},
          district : {Text("DistrictY")}, block : {PyNone},
          leaves : {<<Num(50), Num(50), Num(50), Text("critical")>>, NoLeaves},
          units : {NoUnits}]
UnitRecords ==
    [family : {"annexure_4a", "annexure_4b"}, state : {Text("StateX")},
     district : {Text("DistrictY")}, block : {PyNone}, leaves : {NoLeaves},
     units : {<<Text("UnitU"), Text("UnitV"), Text("UnitW")>>,
              <<Text("UnitU"), Text("UnitU"), PyNone>>,
              <<Text("UnitU"), PyNone, PyNone>>,
              NoUnits}]
FactRecords == MetricRecords \cup UnitRecords

InFactOrder(rs) ==
    \A i \in 1..(Len(rs) - 1) :
        FactFamilyIndex(rs[i].family) <= FactFamilyIndex(rs[i + 1].family)

\* Up to MaxRecords records, the families in the order of the loops.
InitFact ==
    /\ phase = "fact_ids"
    /\ \E n \in 0..MaxRecords : \E body \in [1..n -> FactRecords] :
          /\ InFactOrder(body)
          /\ src_records = body
    /\ src_idx = 1
    /\ written = <<>>
    /\ IdleScan
    /\ IdleRun
    /\ IdleDecode
    /\ IdleApi

NextFact ==
    \/ write_state_report_facts
    \/ write_central_report_facts
    \/ write_attribute_detailed_facts
    \/ write_annexure4a_facts
    \/ write_annexure4b_facts

SpecFact == InitFact /\ [][NextFact]_vars

\* C10: among the facts written in one run, two facts that differ in source
\* family, metric or value-bearing leaf never share an id.
C10_FactIdsArePrimaryKeys ==
    phase = "fact_ids" =>
        \A i, j \in 1..Len(written) :
            (\/ written[i].source_type # written[j].source_type
             \/ written[i].metric # written[j].metric
             \/ written[i].leaf # written[j].leaf)
                => written[i].id # written[j].id

--------------------------------------------------------------------------
(* The normalizers on one decoded record at a time: every leaf of the      *)
(* record is a number, a zero or missing, independently of the others.     *)

LeafValues == {Num(50), Num(0), PyNone}
CategorizationValues == {Text("critical"), Text(""), PyNone}
NumericLeaves == [1..4 -> LeafValues]
CategorizedLeaves ==
    {<<f[1], f[2], f[3], c>> : f \in [1..3 -> LeafValues], c \in CategorizationValues}

\* The decoded records: block-level, district-level and state-level records,
\* an Annexure 2 record decoded from the column-number row of the sheet
\* (serial 1, district 2), and the Annexure 4 records.
NormRecords ==
    [family : {"state_report", "attribute_detailed"}, state : {Text("StateX")},
     district : {Text("DistrictY")}, block : {Text("BlockB")},
     leaves : CategorizedLeaves, units : {NoUnits}]
    \cup [family : {"central_report"}, state : {Text("StateX")},
          district : {Text("DistrictY")}, block : {PyNone},
          leaves : CategorizedLeaves, units : {NoUnits}]
    \cup [family : {"attribute_summary", "annexure_3a"}, state : {Text("StateX")},
          district : {PyNone}, block : {PyNone},
          leaves : NumericLeaves, units : {NoUnits}]
    \cup [family : {"annexure_2"}, state : {Text("StateX")},
          district : {Text("DistrictY"), Text("2")}, block : {PyNone},
          leaves : NumericLeaves, units : {NoUnits}]
    \cup UnitRecords

InitNorm ==
    /\ phase = "fact_ids"
    /\ \E record \in NormRecords : src_records = <<record>>
    /\ src_idx = 1
    /\ written = <<>>
    /\ IdleScan
    /\ IdleRun
    /\ IdleDecode
    /\ IdleApi

NextNorm ==
    \/ write_state_report_facts
    \/ write_central_report_facts
    \/ write_attribute_summary_facts
    \/ write_attribute_detailed_facts
    \/ write_annexure2_facts
    \/ write_annexure3a_facts
    \/ write_annexure4a_facts
    \/ write_annexure4b_facts

SpecNorm == InitNorm /\ [][NextNorm]_vars

\* The metric list a family's records are walked with.
FamilyMetrics(fam) ==
    CASE fam = "state_report" -> StateReportMetrics
      [] fam = "central_report" -> CentralReportMetrics
      [] fam = "attribute_summary" -> AttributeSummaryMetrics
      [] fam = "attribute_detailed" -> AttributeDetailedMetrics
      [] fam = "annexure_2" -> Annexure2Metrics
      [] fam = "annexure_3a" -> Annexure3aMetrics
      [] OTHER -> <<>>

\* The facts written for leaf n of the metric list from record i.
FactsOfLeaf(i, n) ==
    {k \in 1..Len(written) :
        /\ written[k].row = i
        /\ written[k].leaf = FamilyMetrics(src_records[i].family)[n].leaf}

\* The metrics whose zero is significant: the category counts and the
\* extraction-stage percentage.
AlwaysKeepNames ==
    {"over_exploited_units_count", "critical_units_count", "saline_units_count",
     "stage_of_extraction_percent"}

\* The record is one normalize_annexure2 leaves out for its district.
DistrictSkipped(record) ==
    record.family = "annexure_2" /\ IsShortNumber(record.district)

\* C12: a zero category count (over-exploited, critical, saline units count)
\* or a zero stage-of-extraction percentage still produces a fact, in every
\* family that emits such a metric, the attribute summary included.
C12_ZeroKeptForAlwaysKeepMetrics ==
    phase = "fact_ids" =>
        \A i \in 1..(src_idx - 1) :
            LET record == src_records[i]
                metrics == FamilyMetrics(record.family)
            IN  \A n \in 1..Len(metrics) :
                    (/\ metrics[n].metric \in AlwaysKeepNames
                     /\ record.leaves[n] = Num(0)
                     /\ ~DistrictSkipped(record))
                        => FactsOfLeaf(i, n) # {}

\* C13: a zero numeric leaf whose metric is not a category count, the
\* extraction-stage percentage or the categorization string produces no
\* fact, and a non-empty categorization string of the record produces its
\* categorization_status fact whatever the numeric leaves are.
C13_OtherZeroSuppressedCategorizationKept ==
    phase = "fact_ids" =>
        \A i \in 1..(src_idx - 1) :
            LET record == src_records[i]
                metrics == FamilyMetrics(record.family)
            IN  \A n \in 1..Len(metrics) :
                    /\ (/\ metrics[n].metric \notin AlwaysKeepNames
                        /\ metrics[n].metric # "categorization_status"
                        /\ record.leaves[n] = Num(0))
                            => FactsOfLeaf(i, n) = {}
                    /\ (/\ metrics[n].metric = "categorization_status"
                        /\ record.leaves[n].t = "str"
                        /\ record.leaves[n].s # "")
                            => FactsOfLeaf(i, n) # {}

\* C14: every leaf on the family's metric list whose value is non-zero and
\* non-empty gives exactly one fact, and the fact carries the leaf's value.
C14_NonZeroLeafGivesOneEqualFact ==
    phase = "fact_ids" =>
        \A i \in 1..(src_idx - 1) :
            LET record == src_records[i]
                metrics == FamilyMetrics(record.family)
            IN  \A n \in 1..Len(metrics) :
                    (/\ record.leaves[n].t # "none"
                     /\ record.leaves[n] # Num(0)
                     /\ ~(record.leaves[n].t = "str" /\ record.leaves[n].s = ""))
                        => /\ Cardinality(FactsOfLeaf(i, n)) = 1
                           /\ \A k \in FactsOfLeaf(i, n) : written[k].value = record.leaves[n]

\* The description of the metric a fact was made from.
DescOfFact(fact) ==
    LET metrics == FamilyMetrics(fact.source_type)
        n == CHOOSE n \in 1..Len(metrics) : metrics[n].leaf = fact.leaf
    IN  metrics[n].desc

\* The location of a fact: block and district, the district, or the state.
LocationOfFact(fact) ==
    IF fact.block.t # "none" /\ fact.district.t # "none"
    THEN Raw(fact.block) \o " block of " \o Raw(fact.district) \o " district, "
            \o Raw(fact.state)
    ELSE IF fact.district.t # "none" THEN Raw(fact.district) \o " district, " \o Raw(fact.state)
    ELSE Raw(fact.state)

\* The sentence the four rules give, in their priority order.
SentenceByRules(fact) ==
    LET opening == "In " \o LocationOfFact(fact) \o " (" \o Raw(SourceYear) \o "), "
                      \o DescOfFact(fact) \o " is "
    IN  IF fact.value.t = "str" THEN opening \o Raw(fact.value) \o "."
        ELSE IF fact.unit = "count"
        THEN Raw(fact.state) \o " has " \o format_value(fact.value) \o " " \o DescOfFact(fact)
                \o " as per the " \o Raw(SourceYear) \o " groundwater assessment."
        ELSE IF fact.unit = "percent" THEN opening \o format_value(fact.value) \o "%."
        ELSE opening \o format_value(fact.value) \o " " \o UNIT_NAMES(fact.unit) \o "."

\* C19: the sentence of a fact follows the four rules in priority order
\* (non-numeric string value; else count unit, the state-level "has N"
\* sentence; else percent unit, "%" appended; else the unit's expanded
\* name), with the location built from block and district, the district,
\* or the state alone.
C19_SentenceFollowsRules ==
    phase = "fact_ids" =>
        \A k \in 1..Len(written) :
            written[k].source_type \notin {"annexure_4a", "annexure_4b"}
                => written[k].text = SentenceByRules(written[k])

--------------------------------------------------------------------------
(* The value-coercion functions of both ETL scripts on their own: one call *)
(* on any cell and default.                                                *)

\* The cells of a call: missing-value tokens, "none" in three letter cases,
\* blank and padded texts, numerals with and without a thousands separator,
\* names, and the numeric cells openpyxl returns.
CoerceCells ==
    {PyNone, Text(""), Text("-"), Text("NA"), Text("N/A"), Text("NR"), Text("--"),
     Padded(""), Padded("-"), Padded("NA"),
     Text("none"), Text("None"), Text("NONE"), Padded("none"),
     Text("nan"), Text("NaN"), Text("1"), Padded("1"), Text("0.5"), Text("1,234.5"),
     Text("StateX"), Padded("StateX"), Num(0), Num(10), PyNaN, PyInf}
FloatDefaults == {FloatOk("fin", 0), FloatOk("fin", -10)}
StrDefaults == {Text(""), Text("unknown")}

CoerceCall(name, result) ==
    /\ phase = name
    /\ written = <<>>
    /\ written' = <<result>>
    /\ src_idx' = src_idx + 1
    /\ UNCHANGED <<phase, apiVars, scanVars, runVars, decodeVars, src_records>>

central_safe_float_call ==
    CoerceCall("central_safe_float", central_safe_float(src_records[1], src_records[2]))
state_safe_float_call ==
    CoerceCall("state_safe_float", state_safe_float(src_records[1], src_records[2]))
central_safe_str_call ==
    CoerceCall("central_safe_str", central_safe_str(src_records[1], src_records[2]))
state_safe_str_call ==
    CoerceCall("state_safe_str", state_safe_str(src_records[1]))

\* Both safe_float implementations called on the same cell and default.
safe_float_pair_call ==
    /\ phase = "safe_float_pair"
    /\ written = <<>>
    /\ written' = <<state_safe_float(src_records[1], src_records[2]),
                    central_safe_float(src_records[1], src_records[2])>>
    /\ src_idx' = src_idx + 1
    /\ UNCHANGED <<phase, apiVars, scanVars, runVars, decodeVars, src_records>>

InitCoerce ==
    /\ phase \in {"central_safe_float", "state_safe_float", "central_safe_str", "state_safe_str",
                  "safe_float_pair"}
    /\ \E cell \in CoerceCells :
          \E default \in IF phase \in {"central_safe_float", "state_safe_float", "safe_float_pair"}
                         THEN FloatDefaults ELSE StrDefaults :
              src_records = <<cell, default>>
    /\ src_idx = 1
    /\ written = <<>>
    /\ IdleScan
    /\ IdleRun
    /\ IdleDecode
    /\ IdleApi

NextCoerce ==
    \/ central_safe_float_call
    \/ state_safe_float_call
    \/ central_safe_str_call
    \/ state_safe_str_call
    \/ safe_float_pair_call

SpecCoerce == InitCoerce /\ [][NextCoerce]_vars

\* The cells the specification lists as missing values.
MissingCells ==
    {PyNone, Text(""), Text("-"), Text("NA"), Text("N/A"), Text("NR"), Text("--")}

\* C15: safe_float of the state-report ETL and of the central/annexure ETL
\* return the supplied default for every cell in
\* {"", "-", "NA", "N/A", "NR", "--", None}.
C15_MissingCellsGiveDefault ==
    (phase \in {"central_safe_float", "state_safe_float"} /\ written # <<>>) =>
        (src_records[1] \in MissingCells => written[1] = src_records[2])

\* The state-report safe_float was called on a missing-value token with a
\* default other than 0.0 and returned that default.
C15_Witness ==
    /\ phase = "state_safe_float"
    /\ written # <<>>
    /\ src_records[1] = Text("N/A")
    /\ src_records[2] = FloatOk("fin", -10)
    /\ written[1] = FloatOk("fin", -10)

\* The literal "none" in any letter case, with surrounding whitespace or not.
IsNoneLiteral(cell) == cell.t = "str" /\ Lower(cell.s) = "none"

\* A cell of whitespace only, or empty.
IsBlank(cell) == cell.t = "str" /\ cell.s = ""

\* C17: safe_str of both ETL scripts trims whitespace and maps None and the
\* literal "none" in any letter case to the default (central/annexure ETL)
\* or to null (state-report ETL); a whitespace-only cell comes out absent
\* (null or empty).
C17_ToStringTrimsAndMapsNone ==
    (phase \in {"central_safe_str", "state_safe_str"} /\ written # <<>>) =>
        LET cell == src_records[1]
            absent == IF phase = "central_safe_str" THEN src_records[2] ELSE PyNone
        IN  /\ (cell.t = "none" \/ (IsNoneLiteral(cell) /\ ~cell.pad)) => written[1] = absent
            /\ IsBlank(cell) => ~Truthy(written[1])
            /\ (cell.t = "str" /\ ~IsNoneLiteral(cell) /\ ~IsBlank(cell))
                  => written[1] = Text(cell.s)

\* C30: safe_float of the state-report ETL and safe_float of the
\* central/annexure ETL return the same result for every cell and default.
C30_SafeFloatImplementationsAgree ==
    (phase = "safe_float_pair" /\ written # <<>>) => written[1] = written[2]

--------------------------------------------------------------------------
(* Year extraction of both ETL scripts on its own: one call on a file name *)

\* File names: a family prefix, a year text, the extension.
NamePrefixes == {"stateReportKerala", "CentralReport", "Annexure1_", "attributeReport"}
YearTexts == {"2024-2025", "2024-25", "2024_25", "202425", "2024-250", "2024", "", "1234567"}
YearFileNames == {prefix \o year \o ".xlsx" : prefix \in NamePrefixes, year \in YearTexts}

ExtractYearCall(name, year) ==
    /\ phase = name
    /\ written = <<>>
    /\ written' = <<year>>
    /\ src_idx' = src_idx + 1
    /\ UNCHANGED <<phase, apiVars, scanVars, runVars, decodeVars, src_records>>

state_extract_year_call ==
    ExtractYearCall("state_extract_year", state_extract_year_from_filename(file_name))
central_extract_year_call ==
    ExtractYearCall("central_extract_year", central_extract_year_from_filename(file_name))

InitYear ==
    /\ phase \in {"state_extract_year", "central_extract_year"}
    /\ file_name \in YearFileNames
    /\ ws_rows = <<>>
    /\ row_num = 0
    /\ state_records = <<>>
    /\ extract_status = "idle"
    /\ src_records = <<>>
    /\ src_idx = 1
    /\ written = <<>>
    /\ IdleScan
    /\ IdleRun
    /\ IdleApi

NextYear ==
    \/ state_extract_year_call
    \/ central_extract_year_call

SpecYear == InitYear /\ [][NextYear]_vars

\* A "YYYY-YYYY" string.
IsYearRange(year) ==
    Len(year) = 9 /\ DigitsAt(year, 1, 4) /\ CharAt(year, 5) = "-" /\ DigitsAt(year, 6, 4)

\* The file names that carry the years 2024 and 2025 with a 4-digit or a
\* 2-digit end-year suffix.
HasYearSuffix(filename) ==
    \E prefix \in NamePrefixes : filename \in {prefix \o "2024-2025.xlsx", prefix \o "2024-25.xlsx"}

\* C20: year extraction returns "YYYY-YYYY" for a 4-digit and for a 2-digit
\* end-year suffix, the 2-digit suffix expanded to 4 digits, and the year of
\* any file is such a string or "unknown".
C20_YearIsRangeOrUnknown ==
    (phase \in {"state_extract_year", "central_extract_year"} /\ written # <<>>) =>
        /\ HasYearSuffix(file_name) => written[1] = "2024-2025"
        /\ written[1] = "unknown" \/ IsYearRange(written[1])

--------------------------------------------------------------------------
(* The two identity functions on their own: generate_id of the chunk       *)
(* builder on any parts of equal arity, and generate_id of the fact        *)
(* normalizer as create_record calls it, on any state, district and block. *)

\* Records of a call pair: src_records holds the two part sequences, written
\* the two ids.
PartValues ==
    {PyNone, Text(""), Text("A"), Text("B"), Text("A|B"), Text("_NULL_")}

\* generate_id(*parts) of the chunk builder, called on both part sequences.
chunk_generate_id_calls ==
    /\ phase = "chunk_generate_id"
    /\ written = <<>>
    /\ written' = <<chunk_generate_id(src_records[1]), chunk_generate_id(src_records[2])>>
    /\ src_idx' = src_idx + 1
    /\ UNCHANGED <<phase, apiVars, scanVars, runVars, decodeVars, src_records>>

\* generate_id(state, district or "", block or "", year, metric) of the fact
\* normalizer, called on both (state, district, block) triples.
fact_generate_id_calls ==
    /\ phase = "fact_generate_id"
    /\ written = <<>>
    /\ Len(src_records[1]) = 3
    /\ written' =
          [n \in 1..2 |->
              fact_generate_id(src_records[n][1], OrEmpty(src_records[n][2]),
                               OrEmpty(src_records[n][3]), SourceYear, "rainfall_total_mm")]
    /\ src_idx' = src_idx + 1
    /\ UNCHANGED <<phase, apiVars, scanVars, runVars, decodeVars, src_records>>

\* Two part sequences of the same arity, up to MaxParts parts.
InitId ==
    /\ phase \in {"chunk_generate_id", "fact_generate_id"}
    /\ \E n \in 1..MaxParts : \E a \in [1..n -> PartValues] : \E b \in [1..n -> PartValues] :
          src_records = <<a, b>>
    /\ src_idx = 1
    /\ written = <<>>
    /\ IdleScan
    /\ IdleRun
    /\ IdleDecode
    /\ IdleApi

NextId ==
    \/ chunk_generate_id_calls
    \/ fact_generate_id_calls

SpecId == InitId /\ [][NextId]_vars

\* A part as the identity sees it: absent (None or ""), or its text.
PartKey(p) == IF p.t = "none" \/ p = Text("") THEN <<"absent">> ELSE <<"present", Raw(p)>>
PartKeys(parts) == [i \in 1..Len(parts) |-> PartKey(parts[i])]

\* C11: the identity function is injective on the normalised parts and
\* order-sensitive: two calls of equal arity whose parts differ in some
\* position (a different text, an absent part against a present one, two
\* different parts swapped) never yield the same id.
C11_IdentityInjective ==
    (phase \in {"chunk_generate_id", "fact_generate_id"} /\ written # <<>>) =>
        (PartKeys(src_records[1]) # PartKeys(src_records[2]) => written[1] # written[2])


--------------------------------------------------------------------------
(* Chunk text (semantic_chunker): format_value and the paragraph that      *)
(* build_state_report_chunk renders for one record.  The numbers of a      *)
(* record are the floats json.load returns, in tenths.                     *)

Abs(n) == IF n < 0 THEN 0 - n ELSE n
TwoDigits(n) == DigitText(n \div 10) \o DigitText(n % 10)

\* f"{num / den:.2f}" for the quotient of two integers; no input of the
\* model lies exactly between two hundredths.
Fixed2(num, den) ==
    LET hundredths == 100 * (Abs(num) \div den) + (200 * (Abs(num) % den) + den) \div (2 * den)
    IN  (IF num < 0 THEN "-" ELSE "") \o IntText(hundredths \div 100) \o "."
            \o TwoDigits(hundredths % 100)

\* The result of a call: its text, or the exception it raises.
Returned(text) == [ok |-> TRUE, text |-> text]
Raised(exception) == [ok |-> FALSE, text |-> exception]

\* format_value of the chunk builder. For NaN both magnitude tests are
\* false and int(value) raises ValueError.
chunk_format_value(value) ==
    CASE value.t = "none" -> Returned("N/A")
      [] value.t = "num" ->
            IF Abs(value.v) >= 10000000 THEN Returned(Fixed2(value.v, 10000000) \o "M")
            ELSE IF Abs(value.v) >= 10000 THEN Returned(Fixed2(value.v, 10000) \o "K")
            ELSE IF value.v % 10 = 0
                 THEN Returned((IF value.v < 0 THEN "-" ELSE "") \o IntText(Abs(value.v) \div 10))
            ELSE Returned(Fixed2(value.v, 10))
      [] value.t = "inf" -> Returned("infM")
      [] value.t = "nan" -> Raised("ValueError")
      [] OTHER -> Returned(Raw(value))

\* sep.join(parts)
RECURSIVE JoinWith(_, _)
JoinWith(sep, parts) ==
    IF parts = <<>> THEN ""
    ELSE IF Len(parts) = 1 THEN parts[1]
    ELSE parts[1] \o sep \o JoinWith(sep, Tail(parts))

\* f"{label}{format_value(value)}{unit}" when the guard holds, else nothing.
InfoItem(guard, label, value, unit) ==
    IF guard THEN <<label \o chunk_format_value(value).text \o unit>> ELSE <<>>

\* " | ".join(info) + "." when the list is not empty.
InfoPart(info) == IF info = <<>> THEN <<>> ELSE <<JoinWith(" | ", info) \o ".">>

build_location_string(state, district, block) ==
    IF Truthy(block) /\ Truthy(district)
    THEN block.s \o " block in " \o district.s \o " district, " \o state.s
    ELSE IF Truthy(district) THEN district.s \o " district, " \o state.s
    ELSE state.s

\* value > 0 for a number or None read from the record (None is falsy and
\* never reaches the comparison).
Positive(value) == value.t = "inf" \/ (value.t = "num" /\ value.v > 0)

header_part(record, state, year) ==
    <<"**" \o build_location_string(state, clean_name(record.district, "district"),
                                    clean_name(record.block, "block"))
           \o " (" \o year.s \o ")**">>

watershed_part(record) ==
    IF Truthy(record.watershed) THEN <<"Watershed: " \o Raw(record.watershed) \o ".">> ELSE <<>>

area_info(record) ==
    InfoItem(Truthy(record.rainfall_total), "Annual rainfall: ", record.rainfall_total, " mm")
    \o InfoItem(Truthy(record.geo_area_total), "Total area: ", record.geo_area_total, " ha")
    \o InfoItem(Truthy(record.recharge_worthy), "Recharge-worthy area: ", record.recharge_worthy, " ha")

recharge_info(record) ==
    InfoItem(Truthy(record.annual_recharge), "Annual groundwater recharge: ",
             record.annual_recharge, " ham")
    \o InfoItem(Truthy(record.gw_recharge_rainfall), "from rainfall: ",
                record.gw_recharge_rainfall, " ham")

ext_breakdown(record) ==
    InfoItem(Truthy(record.extraction_irrigation), "irrigation ", record.extraction_irrigation, "")
    \o InfoItem(Truthy(record.extraction_domestic), "domestic ", record.extraction_domestic, "")
    \o InfoItem(Truthy(record.extraction_industrial) /\ Positive(record.extraction_industrial),
                "industrial ", record.extraction_industrial, "")

ext_details(record) ==
    IF Truthy(record.extraction_total)
    THEN <<"Total extraction: " \o chunk_format_value(record.extraction_total).text \o " ham"
             \o (IF ext_breakdown(record) # <<>>
                 THEN " (" \o JoinWith(", ", ext_breakdown(record)) \o ")" ELSE "")>>
    ELSE <<>>

resource_info(record) ==
    InfoItem(Truthy(record.extractable), "Extractable resource: ", record.extractable, " ham")
    \o ext_details(record)

status_info(record) ==
    InfoItem(record.stage_of_extraction.t # "none", "Stage of extraction: ",
             record.stage_of_extraction, "%")
    \o InfoItem(Truthy(record.net_availability), "Net availability: ",
                record.net_availability, " ham")
    \o (IF Truthy(record.categorization)
        THEN <<"Status: **" \o Upper(record.categorization.s) \o "**">> ELSE <<>>)

trend_info(record) ==
    IF Truthy(record.trend_pre) \/ Truthy(record.trend_post)
    THEN <<"Groundwater trend:"
             \o (IF Truthy(record.trend_pre) THEN " Pre-monsoon: " \o Raw(record.trend_pre) ELSE "")
             \o (IF Truthy(record.trend_post) THEN " | Post-monsoon: " \o Raw(record.trend_post) ELSE "")
             \o ".">>
    ELSE <<>>

storage_part(record) ==
    InfoItem(Truthy(record.storage_fresh) /\ Positive(record.storage_fresh),
             "Fresh groundwater in storage: ", record.storage_fresh, " ham.")

\* The parts with the storage sentence appended before the trend sentence.
text_parts_StorageFirst(record, state, year) ==
    IF ~Truthy(clean_name(record.block, "block")) THEN <<>>
    ELSE header_part(record, state, year) \o watershed_part(record) \o InfoPart(area_info(record))
         \o InfoPart(recharge_info(record)) \o InfoPart(resource_info(record))
         \o InfoPart(status_info(record)) \o storage_part(record) \o trend_info(record)

\* text_parts of build_state_report_chunk, in the order of its appends;
\* no parts when the record has no block (the builder returns None).
text_parts(record, state, year) ==
    IF ~Truthy(clean_name(record.block, "block")) THEN <<>>
    ELSE header_part(record, state, year) \o watershed_part(record) \o InfoPart(area_info(record))
         \o InfoPart(recharge_info(record)) \o InfoPart(resource_info(record))
         \o InfoPart(status_info(record)) \o trend_info(record) \o storage_part(record)

\* The values format_value is called with: floats of either ETL (the
\* central ETL's safe_float passes NaN on), None, and a text.
FormatValues ==
    {PyNone, Num(0), Num(125), Num(9990), Num(9995), Num(12345), Num(15000000),
     Num(-25000), Num(-15000000), Num(-125), PyNaN, PyInf, Text("safe")}

Present(value) == {PyNone, value}

\* The fields of each section of a state-report record.
AreaFields ==
    {f \in [rainfall_total : {PyNone, Num(0), Num(9995)}, geo_area_total : Present(Num(12345)),
            recharge_worthy : Present(Num(9990))] :
        (f.recharge_worthy = PyNone) = (f.geo_area_total = PyNone)}
RechargeFields ==
    [annual_recharge : Present(Num(15000000)), gw_recharge_rainfall : Present(Num(9990))]
ResourceFields ==
    {f \in [extractable : Present(Num(125)), extraction_total : Present(Num(12345)),
            extraction_irrigation : Present(Num(9990)), extraction_domestic : Present(Num(9990)),
            extraction_industrial : {PyNone, Num(0), Num(125)}] :
        /\ f.extraction_domestic = f.extraction_irrigation
        /\ (f.extraction_total = PyNone \/ f.extraction_irrigation = PyNone)
              => f.extraction_industrial = PyNone}
StatusFields ==
    {f \in [stage_of_extraction : Present(Num(0)), net_availability : Present(Num(-25000)),
            categorization : Present(Text("safe"))] :
        (f.categorization = PyNone) = (f.net_availability = PyNone)}
TrendFields ==
    {f \in [trend_pre : Present(Text("Rising")), trend_post : Present(Text("Falling"))] :
        f.trend_pre = PyNone => f.trend_post = PyNone}

\* The state-report records whose paragraph is rendered.
TextRecords ==
    {[district |-> Text("DistrictY"), block |-> block, watershed |-> watershed,
      storage_fresh |-> storage] @@ area @@ recharge @@ resource @@ status @@ trend :
        block \in Present(Text("BlockB")), watershed \in Present(Text("W1")),
        storage \in Present(Num(9990)), area \in AreaFields, recharge \in RechargeFields,
        resource \in ResourceFields, status \in StatusFields, trend \in TrendFields}

\* One call of format_value.
format_value_call ==
    /\ phase = "format_value"
    /\ written = <<>>
    /\ written' = <<chunk_format_value(src_records[1])>>
    /\ src_idx' = src_idx + 1
    /\ UNCHANGED <<phase, apiVars, scanVars, runVars, decodeVars, src_records>>

\* One call of build_state_report_chunk: chunk["text"] is " ".join(text_parts).
state_report_chunk_text ==
    /\ phase = "state_chunk_text"
    /\ src_idx = 1
    /\ written' = text_parts(src_records[1], SourceState, SourceYear)
    /\ src_idx' = src_idx + 1
    /\ UNCHANGED <<phase, apiVars, scanVars, runVars, decodeVars, src_records>>

InitText ==
    /\ phase \in {"format_value", "state_chunk_text"}
    /\ \E r \in IF phase = "format_value" THEN FormatValues ELSE TextRecords :
          src_records = <<r>>
    /\ src_idx = 1
    /\ written = <<>>
    /\ IdleScan
    /\ IdleRun
    /\ IdleDecode
    /\ IdleApi

NextText ==
    \/ format_value_call
    \/ state_report_chunk_text

SpecText == InitText /\ [][NextText]_vars

\* C21: chunk number formatting: a float of magnitude >= 1,000,000 renders
\* as value/1e6 with 2 decimals followed by "M", one of magnitude >= 1,000
\* as value/1e3 with 2 decimals followed by "K", an integral value below
\* 1,000 without decimals, any other float (NaN: "nan") with 2 decimals;
\* and a block chunk with annual recharge 1500000.0 contains "1.50M".
C21_ChunkNumberFormatting ==
    /\ (phase = "format_value" /\ written # <<>> /\ src_records[1].t \in {"num", "nan"}) =>
          LET value == src_records[1]
          IN  written[1] =
                 IF value.t = "nan" THEN Returned("nan")
                 ELSE IF Abs(value.v) >= 10000000 THEN Returned(Fixed2(value.v, 10000000) \o "M")
                 ELSE IF Abs(value.v) >= 10000 THEN Returned(Fixed2(value.v, 10000) \o "K")
                 ELSE IF value.v % 10 = 0
                      THEN Returned((IF value.v < 0 THEN "-" ELSE "") \o IntText(Abs(value.v) \div 10))
                 ELSE Returned(Fixed2(value.v, 10))
    /\ (phase = "state_chunk_text" /\ written # <<>>
           /\ src_records[1].annual_recharge = Num(15000000)) =>
          \E n \in 1..Len(written) : InString("1.50M", written[n])

StartsWith(text, prefix) == Len(text) >= Len(prefix) /\ SubSeq(text, 1, Len(prefix)) = prefix

\* The sentences that open each section, in the order the specification
\* gives: identity header (with the watershed line), area/rainfall,
\* recharge, resources/extraction, status, trend, storage.
SectionOpenings ==
    <<{"**", "Watershed: "},
      {"Annual rainfall: ", "Total area: ", "Recharge-worthy area: "},
      {"Annual groundwater recharge: ", "from rainfall: "},
      {"Extractable resource: ", "Total extraction: "},
      {"Stage of extraction: ", "Net availability: ", "Status: **"},
      {"Groundwater trend:"},
      {"Fresh groundwater in storage: "}>>

\* The section a part of the text belongs to, 0 for none.
SectionOf(part) ==
    IF \E k \in 1..Len(SectionOpenings) : \E o \in SectionOpenings[k] : StartsWith(part, o)
    THEN CHOOSE k \in 1..Len(SectionOpenings) : \E o \in SectionOpenings[k] : StartsWith(part, o)
    ELSE 0

BreakdownItems == {"irrigation ", "domestic ", "industrial "}

\* C24: the text of every state-report chunk (its parts, joined by blanks)
\* lists its sections in the fixed order identity header, area/rainfall,
\* recharge, resources/extraction, status, trend, storage, whichever
\* sections are absent; and the irrigation/domestic/industrial breakdown
\* appears only inside the extraction sentence.
C24_SectionsInFixedOrder ==
    (phase = "state_chunk_text" /\ written # <<>>) =>
        /\ StartsWith(written[1], "**")
        /\ \A n \in 1..Len(written) : SectionOf(written[n]) # 0
        /\ \A n \in 2..(Len(written) - 1) :
              /\ SectionOf(written[n]) <= SectionOf(written[n + 1])
              /\ SectionOf(written[n + 1]) > 1 => SectionOf(written[n]) < SectionOf(written[n + 1])
        /\ \A n \in 1..Len(written) :
              (\E item \in BreakdownItems : InString(item, written[n])) =>
                  /\ SectionOf(written[n]) = 4
                  /\ InString("Total extraction: ", written[n])

\* C24 witness: a chunk without recharge and status sections, with the
\* extraction breakdown, the trend and the storage sentences.
C24_Witness ==
    /\ phase = "state_chunk_text"
    /\ written # <<>>
    /\ {SectionOf(written[n]) : n \in 1..Len(written)} = {1, 2, 4, 6, 7}
    /\ \E n \in 1..Len(written) : InString("(irrigation ", written[n])

--------------------------------------------------------------------------
(* The API server (src/Ollama/api_server.py): the document store with its  *)
(* ChromaDB and in-memory paths, and the streamed text generation.  A call *)
(* of the ChromaDB client or of the upstream either returns or raises;     *)
(* which of the two is the environment's choice.                           *)

MaxCalls == 2
MaxTexts == 2
MaxLines == 3

CollectionNames == {"c1", "c2"}
DocTexts == {"t1", "t2"}
DocIds == {"a", "b"}

\* texts and ids of an add request: ids is <<>> when the request has none.
AddRequests ==
    UNION {{[texts |-> texts, ids |-> ids] :
               texts \in [1..n -> DocTexts], ids \in [1..n -> DocIds] \cup {<<>>}} : n \in 0..MaxTexts}

\* What the calls made while serving an add or a query do.
AddOutcomes == {"embed_raises", "get_or_create_raises", "upsert_raises", "upsert_returns"}
QueryOutcomes == {"embed_raises", "query_raises", "query_returns"}

NoCollection == [exists |-> FALSE, docs |-> <<>>]
NoChromaCollection == [exists |-> FALSE, docs |-> {}]

\* ids = [f"doc-{i}" for i in range(len(texts))]
AutoIds(n) == [i \in 1..n |-> "doc-" \o IntText(i - 1)]

\* zip(texts, vectors, metadatas, ids) as documents.
Documents(texts, ids) ==
    [i \in 1..(IF Len(texts) < Len(ids) THEN Len(texts) ELSE Len(ids)) |->
        [id |-> ids[i], text |-> texts[i]]]

UniqueIds(ids) == \A i, j \in 1..Len(ids) : ids[i] = ids[j] => i = j

\* collection.upsert(ids, documents, ...): each id holds the document of
\* this call.
upsert(docs, new) ==
    {d \in docs : \A i \in 1..Len(new) : new[i].id # d.id} \cup {new[i] : i \in 1..Len(new)}

\* memory_store[collection_name].append(...) for each document.
memory_append(docs, new) == docs \o new

AddResponse(c, n, storage) ==
    [op |-> "add", code |-> 200, status |-> "added", collection |-> c, count |-> n,
     storage |-> storage, searched |-> {}]
QueryResponse(c, storage, docs) ==
    [op |-> "query", code |-> 200, status |-> "results", collection |-> c, count |-> 0,
     storage |-> storage, searched |-> docs]
ErrorResponse(op, c, code) ==
    [op |-> op, code |-> code, status |-> "error", collection |-> c, count |-> 0,
     storage |-> "", searched |-> {}]

\* POST /api/collections/<collection_name>/add
add_documents(c, req, outcome) ==
    /\ phase = "api_store"
    /\ calls < MaxCalls
    /\ calls' = calls + 1
    /\ (outcome = "upsert_returns") =>
          (client = "chromadb" /\ UniqueIds(req.ids) /\ Len(req.ids) \in {0, Len(req.texts)})
    /\ LET ids == IF req.ids = <<>> THEN AutoIds(Len(req.texts)) ELSE req.ids
           new == Documents(req.texts, ids)
       IN  IF req.texts = <<>>
           THEN /\ response' = ErrorResponse("add", c, 400)
                /\ UNCHANGED <<chroma, memory_store>>
           ELSE IF outcome = "embed_raises"
           THEN /\ response' = ErrorResponse("add", c, 500)
                /\ UNCHANGED <<chroma, memory_store>>
           ELSE IF client = "chromadb" /\ outcome = "upsert_returns"
           THEN /\ chroma' = [chroma EXCEPT ![c] = [exists |-> TRUE, docs |-> upsert(@.docs, new)]]
                /\ response' = AddResponse(c, Len(req.texts), "chromadb")
                /\ UNCHANGED memory_store
           ELSE /\ chroma' = IF client = "chromadb" /\ outcome = "upsert_raises"
                             THEN [chroma EXCEPT ![c].exists = TRUE]
                             ELSE chroma
                /\ memory_store' = [memory_store EXCEPT
                                       ![c] = [exists |-> TRUE, docs |-> memory_append(@.docs, new)]]
                /\ response' = AddResponse(c, Len(req.texts), "memory")
    /\ UNCHANGED <<phase, scanVars, runVars, decodeVars, idVars, client, upstream, events,
                   stream_status>>

\* POST /api/collections/<collection_name>/query
query_collection(c, outcome) ==
    /\ phase = "api_store"
    /\ calls < MaxCalls
    /\ calls' = calls + 1
    /\ (outcome = "query_returns") => (client = "chromadb" /\ chroma[c].exists)
    /\ response' =
          IF outcome = "embed_raises" THEN ErrorResponse("query", c, 500)
          ELSE IF client = "chromadb" /\ outcome = "query_returns"
               THEN QueryResponse(c, "chromadb", chroma[c].docs)
          ELSE IF ~memory_store[c].exists THEN ErrorResponse("query", c, 404)
          ELSE QueryResponse(c, "memory",
                             {memory_store[c].docs[i] : i \in 1..Len(memory_store[c].docs)})
    /\ UNCHANGED <<phase, scanVars, runVars, decodeVars, idVars, client, chroma, memory_store,
                   upstream, events, stream_status>>

\* The lines of the upstream: a token, the last token with the done flag,
\* the done flag alone, an error object, a line that is not JSON, an empty
\* line, and a JSON value that is not an object.
LineKinds == {"token", "last_token", "done", "error", "malformed", "empty", "not_object"}

TokenEvent(done) == [kind |-> "token", done |-> done]
DoneEvent == [kind |-> "done", done |-> TRUE]
ErrorEvent == [kind |-> "error", done |-> FALSE]

\* generate_stream up to the Response: requests.post returns and the
\* status is good, or the request is answered with a JSON error.
generate_stream ==
    /\ phase = "api_stream"
    /\ stream_status = "idle"
    /\ stream_status' \in {"streaming", "refused"}
    /\ response' = IF stream_status' = "refused" THEN ErrorResponse("generate", "", 503)
                   ELSE response
    /\ UNCHANGED <<phase, scanVars, runVars, decodeVars, idVars, client, chroma, memory_store,
                   calls, upstream, events>>

\* One iteration of "for line in resp.iter_lines(...)".
stream_line ==
    /\ phase = "api_stream"
    /\ stream_status = "streaming"
    /\ upstream # <<>>
    /\ upstream' = Tail(upstream)
    /\ LET line == Head(upstream)
       IN  CASE line = "token" ->
                  events' = Append(events, TokenEvent(FALSE)) /\ UNCHANGED stream_status
             [] line = "last_token" ->
                  /\ events' = events \o <<TokenEvent(TRUE), DoneEvent>>
                  /\ stream_status' = "closed"
             [] line = "done" ->
                  events' = Append(events, DoneEvent) /\ stream_status' = "closed"
             [] line = "error" ->
                  events' = Append(events, ErrorEvent) /\ stream_status' = "closed"
             [] line = "not_object" ->
                  events' = Append(events, ErrorEvent) /\ stream_status' = "closed"
             [] OTHER -> UNCHANGED <<events, stream_status>>
    /\ UNCHANGED <<phase, scanVars, runVars, decodeVars, idVars, client, chroma, memory_store,
                   response, calls>>

\* The upstream closes: iter_lines is exhausted and the generator returns.
stream_end ==
    /\ phase = "api_stream"
    /\ stream_status = "streaming"
    /\ upstream = <<>>
    /\ stream_status' = "closed"
    /\ UNCHANGED <<phase, scanVars, runVars, decodeVars, idVars, client, chroma, memory_store,
                   response, calls, upstream, events>>

\* iter_lines raises (the connection drops): the error event is sent and
\* the generator returns.
stream_raises ==
    /\ phase = "api_stream"
    /\ stream_status = "streaming"
    /\ events' = Append(events, ErrorEvent)
    /\ stream_status' = "closed"
    /\ UNCHANGED <<phase, scanVars, runVars, decodeVars, idVars, client, chroma, memory_store,
                   response, calls, upstream>>

NoResponse ==
    [op |-> "", code |-> 0, status |-> "", collection |-> "", count |-> 0, storage |-> "",
     searched |-> {}]

InitApi ==
    /\ phase \in {"api_store", "api_stream"}
    /\ client \in IF phase = "api_store" THEN {"chromadb", "none"} ELSE {"none"}
    /\ chroma = [c \in CollectionNames |-> NoChromaCollection]
    /\ memory_store = [c \in CollectionNames |-> NoCollection]
    /\ response = NoResponse
    /\ calls = 0
    /\ upstream \in IF phase = "api_stream"
                     THEN UNION {[1..n -> LineKinds] : n \in 0..MaxLines}
                     ELSE {<<>>}
    /\ events = <<>>
    /\ stream_status = "idle"
    /\ IdleScan
    /\ IdleRun
    /\ IdleDecode
    /\ IdleIds

NextApi ==
    \/ \E c \in CollectionNames : \E req \in AddRequests : \E outcome \in AddOutcomes :
          add_documents(c, req, outcome)
    \/ \E c \in CollectionNames : \E outcome \in QueryOutcomes : query_collection(c, outcome)
    \/ generate_stream
    \/ stream_line
    \/ stream_end
    \/ stream_raises

SpecApi == InitApi /\ [][NextApi]_vars

\* C22: a streamed generation always ends with an explicit done event:
\* when the stream is closed, whatever lines the upstream sent, the last
\* event sent carries done = true, and no token follows a done event.
C22_StreamEndsWithDone ==
    (phase = "api_stream" /\ stream_status = "closed") =>
        /\ events # <<>>
        /\ events[Len(events)].done
        /\ \A i \in 1..Len(events) : events[i].kind = "done" =>
              \A j \in (i + 1)..Len(events) : events[j].kind # "token"

\* The documents memory_store holds for a collection.
MemoryDocs(c) == {memory_store[c].docs[i] : i \in 1..Len(memory_store[c].docs)}

\* C23: adding documents is upsert-by-id in both storage paths: after any
\* sequence of add requests a collection holds at most one document per id,
\* in ChromaDB and in the in-memory fallback.
C23_AddIsUpsertById ==
    phase = "api_store" =>
        \A c \in CollectionNames :
            /\ \A d, e \in chroma[c].docs : d.id = e.id => d = e
            /\ \A i, j \in 1..Len(memory_store[c].docs) :
                  memory_store[c].docs[i].id = memory_store[c].docs[j].id => i = j

\* C28: a query on a collection searches the store that received the
\* documents of the acknowledged adds: a query answered from ChromaDB hides
\* no document held by the in-memory fallback, and a query answered from
\* memory hides no document held by ChromaDB.
C28_QuerySearchesReceivingStore ==
    (phase = "api_store" /\ response.op = "query" /\ response.status = "results") =>
        /\ response.storage = "chromadb" => MemoryDocs(response.collection) = {}
        /\ response.storage = "memory" => chroma[response.collection].docs = {}

\* C29: an acknowledged add request without explicit ids never replaces a
\* document the collection already holds: every document stored before the
\* request is still stored after it.
C29_AutoIdsNeverReplace ==
    [][\A c \in CollectionNames : \A req \in AddRequests : \A outcome \in AddOutcomes :
          (req.ids = <<>> /\ phase = "api_store" /\ add_documents(c, req, outcome)
              /\ response'.status = "added") =>
              /\ chroma[c].docs \subseteq chroma'[c].docs
              /\ \A i \in 1..Len(memory_store[c].docs) :
                    memory_store'[c].docs[i] = memory_store[c].docs[i]]_vars

===========================================================================
